---- MODULE Spec2Model ----
(***************************************************************************)
(* A model of mkmk, the Makefile generator: the scoped Settings store of   *)
(* the C extension, the node registries and the Makefile emitter, and the  *)
(* sticky file-attribute cache that travels in the Makefile's META line.   *)
(*                                                                         *)
(* The specifications share the variables; each leaves the variables of   *)
(* the others at their initial values:                                     *)
(*   SpecSettings  set_*/add_* calls on a tree of Settings                 *)
(*   Spec          script operations on the registries, then the emitter   *)
(*   SpecCache     get_attribute on file handles over several runs         *)
(*   SpecShell     command builders, and make running a built recipe       *)
(*   SpecDeps      include_dep calls of scripts that load each other        *)
(*   SpecExec      get_command_line of the custom-exec nodes                *)
(*   SpecHeaders   get_included_headers over source trees                   *)
(*   SpecFlags     the flags of compile commands from a filled Settings     *)
(*   SpecScan      scan_for_include_names over the lines of a file          *)
(*   SpecFlat      add_dependency and get_input_nodes on a graph of groups  *)
(*   SpecLibs      add_library calls on objects, with pkg-config            *)
(*   SpecNames     nodes of every class made by get_or_create_node          *)
(***************************************************************************)
EXTENDS Integers, Sequences, FiniteSets, TLC

VARIABLES
  attribs,        \* Settings.attribs of every Settings: id -> name -> Setting
  entry_modes,    \* history: the (is_sticky, is_additive) each stored entry was added with
  set_error,      \* outcome of the last set_*/add_* call
  nsets,          \* number of set_*/add_* calls made
  fs_mtime,       \* the file system: path -> modification time in milliseconds
  fs_lines,       \* the file system: path -> the lines of the file
  attrib_cache,   \* Environment.attrib_cache: path -> {"mtime": .., attribute: ..}
  file_attribs,   \* AbstractFile.attribs of the handle of every path
  file_lines,     \* RegularFile.lines of the handle of every path (NotRead: None)
  returned,       \* the value the last get_attribute call returned
  makefile,       \* the file at the Makefile path: its lines, or NoFile
  run_pc,         \* "running": a generator process is alive; "emitted": it wrote the Makefile
  nruns,          \* number of generator processes started
  ntouches,       \* number of changes made to the files
  contexts,       \* the ConfigContext objects made so far
  nodes,          \* the node instances made so far
  nodespace_nodes,\* Nodespace.nodes of every nodespace: full name -> node
  all_nodes,      \* Environment.all_nodes: global name -> node
  first_node,     \* history: what the first get_or_create_node call of a key returned
  sh_os,          \* the platform of the System that builds the command
  sh_arg,         \* the argument handed to the command builder, a list of characters
  sh_inner,       \* the exit status the built program ends with when it is run
  sh_files,       \* the files that exist where the recipe runs
  sh_command,     \* the Command the builder returned, or NotBuilt
  sh_line,        \* the recipe line make runs next
  sh_status,      \* the exit status of the last recipe line make ran
  env_deps,       \* Environment.deps: dep name -> Nodespace
  load_stack,     \* the contexts whose scripts are being loaded, the running one last
  dep_history,    \* history: per dep name, the Nodespaces made and the loads of its script
  dep_call,       \* history: the last include_dep call and whether it found the dep
  ndepcalls,      \* number of include_dep calls made
  exec_node,      \* a custom-exec node: its class, subject, runner, arguments and env
  exec_result,    \* what get_command_line of the node returned or raised
  hd_lines,       \* a source tree: path -> the lines of the file, for the files there are
  hd_includes,    \* CSourceNode.local_includes of the source node
  hd_headers,     \* CSourceNode.headers of the source node (NotCalculated: None)
  hd_scans,       \* history: the paths scan_file read the include names of, in order
  hd_resolves,    \* history: the names resolve_include looked for in the folders, in order
  hd_work,        \* the locals of a calc_included_headers call under way (NotRunning: none)
  cfg_flags,     \* what the last get_config_flags call returned or raised
  ncmds,         \* number of get_config_flags calls made
  sc_lines,      \* the lines of a file whose include names are asked for
  sc_names,      \* what scan_for_include_names returned for the file (NotScanned: not called)
  fl_nodes,      \* the node instances of the graph whose edges are flattened
  fl_inputs,     \* what get_input_nodes returned: the node asked, the query and the nodes (NotAsked: not called)
  library_info,  \* the LibraryInstance of each library for the platform of the run: includes, libs, autoresolve
  system_includes, \* the system_includes set of the source of each object
  libraries,     \* the libraries set of each object
  lib_calls,     \* the add_library calls made, each with what it added and whether it ran pkg-config
  pkg_runs,      \* how many times pkg-config was run
  lib_pc,        \* the process: running, or exited by sys.exit
  nm_nodes       \* the nodes get_or_create_node made, by nodespace and full name, with what get_name and get_full_name return

settingsVars == <<attribs, entry_modes, set_error, nsets>>

cacheVars == <<fs_mtime, fs_lines, attrib_cache, file_attribs, file_lines, returned,
               makefile, run_pc, nruns, ntouches>>

graphVars == <<contexts, nodes, nodespace_nodes, all_nodes, first_node>>

shellVars == <<sh_os, sh_arg, sh_inner, sh_files, sh_command, sh_line, sh_status>>

depVars == <<env_deps, load_stack, dep_history, dep_call, ndepcalls>>

execVars == <<exec_node, exec_result>>

headerVars == <<hd_lines, hd_includes, hd_headers, hd_scans, hd_resolves, hd_work>>

flagVars == <<cfg_flags, ncmds>>

scanVars == <<sc_lines, sc_names>>

flatVars == <<fl_nodes, fl_inputs>>

libVars == <<library_info, system_includes, libraries, lib_calls, pkg_runs, lib_pc>>

nameVars == <<nm_nodes>>

vars == <<attribs, entry_modes, set_error, nsets, fs_mtime, fs_lines, attrib_cache,
          file_attribs, file_lines, returned, makefile, run_pc, nruns, ntouches,
          contexts, nodes, nodespace_nodes, all_nodes, first_node, sh_os, sh_arg, sh_inner,
          sh_files, sh_command, sh_line, sh_status, env_deps, load_stack, dep_history,
          dep_call, ndepcalls, exec_node, exec_result, hd_lines, hd_includes, hd_headers,
          hd_scans, hd_resolves, hd_work, cfg_flags, ncmds,
          sc_lines, sc_names,
          fl_nodes, fl_inputs,
          library_info, system_includes, libraries, lib_calls, pkg_runs, lib_pc,
          nm_nodes>>

(***************************************************************************)
(* Python values.  Every value is a record with the same two fields so     *)
(* that values of different Python types can be compared.                  *)
(***************************************************************************)
PyNone == [t |-> "None", v |-> <<>>]
PyList(s) == [t |-> "list", v |-> s]
PyStr(k) == [t |-> "str", v |-> <<k>>]
PyError(kind) == [t |-> kind, v |-> <<>>]

IsError(x) == x.t \in {"TypeError", "AssertionError", "AttributeError"}

\* operator.add / the + of line 71: the left operand is evaluated first, an
\* exception raised by either operand propagates, list + list concatenates
\* and a list plus anything else is a TypeError.
PyAdd(a, b) ==
  IF IsError(a) THEN a
  ELSE IF IsError(b) THEN b
  ELSE IF a.t = "list" /\ b.t = "list" THEN PyList(a.v \o b.v)
  ELSE PyError("TypeError")

(***************************************************************************)
(* The Settings store (extension/c.py).                                    *)
(***************************************************************************)
\* Bound on the number of set_*/add_* calls of a behaviour.
MaxSets == 3

\* The Settings objects after the C tools of three contexts were built: the
\* pervasive Settings of the environment, the Settings of the root context,
\* those of a script included from the root script, and those of the top
\* context of a dep; and a Settings made with the defaults of the
\* constructor (parent=None, is_pervasive=False).
SettingsIds == {"env", "root", "sub", "dep", "loose"}

NoSettings == "NoSettings"

\* Settings.parent if the top context of a dep were given the root context
\* as its parent.
SettingsParent_DepUnderRoot(s) ==
  CASE s = "env" -> NoSettings
    [] s = "root" -> "env"
    [] s = "sub" -> "root"
    [] s = "dep" -> "root"
    [] s = "loose" -> NoSettings

\* Settings.parent
SettingsParent(s) ==
  CASE s = "env" -> NoSettings
    [] s = "root" -> "env"
    [] s = "sub" -> "root"
    [] s = "dep" -> "env"
    [] s = "loose" -> NoSettings

\* Settings.is_pervasive
SettingsIsPervasive(s) == s = "env"

SettingNames == {"cflags"}

MODE_LOCAL == "local"
MODE_STICKY == "sticky"
MODE_PERVASIVE == "pervasive"

\* The dict with no keys.
EmptyDict == [tag \in {} |-> ""]

\* The restrictions scripts pass as keyword arguments.
Restrictions == {EmptyDict, [language |-> "c"]}

\* The query contexts a toolchain builds (Gcc.get_settings_context with
\* is_cpp False, True and None).
Gcc_get_settings_context(is_cpp) ==
  IF is_cpp = "None" THEN [toolchain |-> "gcc"]
  ELSE [toolchain |-> "gcc", language |-> IF is_cpp = "True" THEN "c++" ELSE "c"]

QueryContexts == {Gcc_get_settings_context(c) : c \in {"None", "True", "False"}}

\* The defaults callers pass to Settings.get: none (None) and [].
Defaults == {PyNone, PyList(<<>>)}

\* A name a Settings does not bind (attribs.get(name, None) is None).
Unbound == [bound |-> FALSE, is_sticky |-> FALSE, is_additive |-> FALSE, values |-> <<>>]

\* Setting.__init__
NewSetting(is_sticky, is_additive) ==
  [bound |-> TRUE, is_sticky |-> is_sticky, is_additive |-> is_additive, values |-> <<>>]

\* Setting.is_active as it would be if a tag the context lacks disqualified
\* the entry.
Setting_is_active_Strict(restriction, context) ==
  \A tag \in DOMAIN restriction :
    tag \in DOMAIN context /\ context[tag] = restriction[tag]

\* Setting.is_active
Setting_is_active(restriction, context) ==
  \A tag \in DOMAIN restriction :
    ~(tag \in DOMAIN context /\ context[tag] # restriction[tag])

\* matches = [v for (v, r) in self.values if self.is_active(r, context)]
RECURSIVE Matches(_, _)
Matches(values, context) ==
  IF values = <<>> THEN <<>>
  ELSE LET rest == Matches(Tail(values), context)
       IN IF Setting_is_active(Head(values).restrictions, context)
          THEN <<Head(values).value>> \o rest
          ELSE rest

\* reduce(operator.add, matches, [])
RECURSIVE ReduceAdd(_, _)
ReduceAdd(matches, acc) ==
  IF matches = <<>> THEN acc
  ELSE ReduceAdd(Tail(matches), PyAdd(acc, Head(matches)))

\* Setting.get that takes the first match of a non-additive Setting without
\* asserting that it is the only one.
Setting_get_FirstMatch(setting, context, defawlt) ==
  LET matches == Matches(setting.values, context)
  IN IF Len(matches) = 0 THEN defawlt
     ELSE IF setting.is_additive THEN ReduceAdd(matches, PyList(<<>>))
     ELSE matches[1]

\* Setting.get
Setting_get(setting, context, defawlt) ==
  LET matches == Matches(setting.values, context)
  IN IF Len(matches) = 0 THEN defawlt
     ELSE IF setting.is_additive THEN ReduceAdd(matches, PyList(<<>>))
     ELSE IF Len(matches) # 1 THEN PyError("AssertionError")
     ELSE matches[1]

\* Settings.get with the parent's resolution put before the own values.
RECURSIVE Settings_get_ParentFirst(_, _, _, _, _, _)
Settings_get_ParentFirst(st, s, name, context, defawlt, only_sticky) ==
  LET attrib == st[s][name]
  IN IF (~attrib.bound) \/ (only_sticky /\ ~attrib.is_sticky)
     THEN IF SettingsParent(s) = NoSettings
          THEN defawlt
          ELSE Settings_get_ParentFirst(st, SettingsParent(s), name, context, defawlt, TRUE)
     ELSE IF attrib.is_additive /\ SettingsParent(s) # NoSettings
     THEN PyAdd(Settings_get_ParentFirst(st, SettingsParent(s), name, context, defawlt, TRUE),
                Setting_get(attrib, context, PyList(<<>>)))
     ELSE Setting_get(attrib, context, defawlt)

\* Settings.get that hands its own only_sticky on to the parent instead of True.
RECURSIVE Settings_get_LocalInherited(_, _, _, _, _, _)
Settings_get_LocalInherited(st, s, name, context, defawlt, only_sticky) ==
  LET attrib == st[s][name]
  IN IF (~attrib.bound) \/ (only_sticky /\ ~attrib.is_sticky)
     THEN IF SettingsParent(s) = NoSettings
          THEN defawlt
          ELSE Settings_get_LocalInherited(st, SettingsParent(s), name, context, defawlt,
                                           only_sticky)
     ELSE IF attrib.is_additive /\ SettingsParent(s) # NoSettings
     THEN PyAdd(Setting_get(attrib, context, PyList(<<>>)),
                Settings_get_LocalInherited(st, SettingsParent(s), name, context, defawlt,
                                            only_sticky))
     ELSE Setting_get(attrib, context, defawlt)

\* Settings.get on the store st
RECURSIVE Settings_get(_, _, _, _, _, _)
Settings_get(st, s, name, context, defawlt, only_sticky) ==
  LET attrib == st[s][name]
  IN IF (~attrib.bound) \/ (only_sticky /\ ~attrib.is_sticky)
     THEN IF SettingsParent(s) = NoSettings
          THEN defawlt
          ELSE Settings_get(st, SettingsParent(s), name, context, defawlt, TRUE)
     ELSE IF attrib.is_additive /\ SettingsParent(s) # NoSettings
     THEN PyAdd(Setting_get(attrib, context, PyList(<<>>)),
                Settings_get(st, SettingsParent(s), name, context, defawlt, TRUE))
     ELSE Setting_get(attrib, context, defawlt)

\* The target of a set call that is never forwarded to the parent.
SetTarget_NotForwarded(s, mode) == s

\* The Settings a set call ends up in: pervasive writes are forwarded to the
\* parent until a pervasive Settings is found.
RECURSIVE SetTarget(_, _)
SetTarget(s, mode) ==
  IF s = NoSettings THEN NoSettings
  ELSE IF mode = MODE_PERVASIVE /\ ~SettingsIsPervasive(s)
  THEN SetTarget(SettingsParent(s), mode)
  ELSE s

\* Settings.set without the two assertions.
Settings_set_NoAssert(st, hist, s, name, value, mode, is_additive, restrictions) ==
  LET t == SetTarget(s, mode)
      is_sticky == ~(mode = MODE_LOCAL)
  IN IF t = NoSettings
     THEN [attribs |-> st, modes |-> hist, error |-> "AttributeError"]
     ELSE LET setting == IF st[t][name].bound THEN st[t][name]
                         ELSE NewSetting(is_sticky, is_additive)
          IN [attribs |-> [st EXCEPT ![t][name] =
                 [setting EXCEPT !.values =
                    Append(@, [value |-> value, restrictions |-> restrictions])]],
              modes |-> [hist EXCEPT ![t][name] = Append(@, <<is_sticky, is_additive>>)],
              error |-> "none"]

\* Settings.set: the store, the history and the outcome after the call.
Settings_set(st, hist, s, name, value, mode, is_additive, restrictions) ==
  LET t == SetTarget(s, mode)
      is_sticky == ~(mode = MODE_LOCAL)
  IN IF t = NoSettings
     THEN [attribs |-> st, modes |-> hist, error |-> "AttributeError"]
     ELSE LET setting == IF st[t][name].bound THEN st[t][name]
                         ELSE NewSetting(is_sticky, is_additive)
          IN IF setting.is_additive # is_additive \/ setting.is_sticky # is_sticky
             THEN [attribs |-> st, modes |-> hist, error |-> "AssertionError"]
             ELSE [attribs |-> [st EXCEPT ![t][name] =
                      [setting EXCEPT !.values =
                         Append(@, [value |-> value, restrictions |-> restrictions])]],
                   modes |-> [hist EXCEPT ![t][name] = Append(@, <<is_sticky, is_additive>>)],
                   error |-> "none"]

\* The value a call stores.  Values are opaque to the store, so every entry
\* gets a flag of its own, named after the Settings that receives it and
\* its position there.
Flag(s, name, mode) ==
  LET t == SetTarget(s, mode)
  IN IF t = NoSettings THEN <<s, 0>> ELSE <<t, Len(attribs[t][name].values) + 1>>

\* A set_* or add_* call made by a script.
DoSet(s, name, value, mode, is_additive, restrictions) ==
  /\ nsets < MaxSets
  /\ LET r == Settings_set(attribs, entry_modes, s, name, value, mode, is_additive,
                           restrictions)
     IN /\ attribs' = r.attribs
        /\ entry_modes' = r.modes
        /\ set_error' = r.error
  /\ nsets' = nsets + 1
  /\ UNCHANGED <<cacheVars, graphVars, shellVars, depVars, execVars, headerVars, flagVars, scanVars, flatVars, libVars, nameVars>>

set_local(s, name, restrictions) ==
  DoSet(s, name, PyStr(Flag(s, name, MODE_LOCAL)), MODE_LOCAL, FALSE, restrictions)

set_sticky(s, name, restrictions) ==
  DoSet(s, name, PyStr(Flag(s, name, MODE_STICKY)), MODE_STICKY, FALSE, restrictions)

set_pervasive(s, name, restrictions) ==
  DoSet(s, name, PyStr(Flag(s, name, MODE_PERVASIVE)), MODE_PERVASIVE, FALSE, restrictions)

\* add_* stores list(values)
add_local(s, name, restrictions) ==
  DoSet(s, name, PyList(<<Flag(s, name, MODE_LOCAL)>>), MODE_LOCAL, TRUE, restrictions)

add_sticky(s, name, restrictions) ==
  DoSet(s, name, PyList(<<Flag(s, name, MODE_STICKY)>>), MODE_STICKY, TRUE, restrictions)

add_pervasive(s, name, restrictions) ==
  DoSet(s, name, PyList(<<Flag(s, name, MODE_PERVASIVE)>>), MODE_PERVASIVE, TRUE,
        restrictions)

InitSettings ==
  /\ attribs = [s \in SettingsIds |-> [n \in SettingNames |-> Unbound]]
  /\ entry_modes = [s \in SettingsIds |-> [n \in SettingNames |-> <<>>]]
  /\ set_error = "none"
  /\ nsets = 0

(***************************************************************************)
(* Strings, dicts and JSON.                                                *)
(***************************************************************************)
\* The strings the generator sorts (paths, target names, include names, the
\* keys of the cache), in the order of Python's string comparison.
SortedStrings ==
  <<"./a", "./b", "./c", "./x", "./x/a", "./x/b", "./x/c", "./y", "./y/a", "./y/b",
    "./y/c", "a", "b", "c", "clean", "dep_a", "include_names", "lib_a", "mtime",
    "out", "out/a", "out/a.o", "out/x", "out/x/a", "out/x/a.o", "out/y",
    "out/y/a", "out/y/a.o">>

\* cmp on strings: the position of a string in the order.
Rank(s) == CHOOSE i \in 1..Len(SortedStrings) : SortedStrings[i] = s

StrLess(a, b) == Rank(a) < Rank(b)

\* The elements of a set in some order.
RECURSIVE SetToSeq(_)
SetToSeq(S) ==
  IF S = {} THEN <<>>
  ELSE LET x == CHOOSE y \in S : TRUE IN <<x>> \o SetToSeq(S \ {x})

\* set(seq)
Range(seq) == {seq[i] : i \in 1..Len(seq)}

\* sorted(seq) on a list of strings
sorted(seq) == SortSeq(seq, StrLess)

\* d[k] = v on a dict
DictSet(d, k, v) == [x \in (DOMAIN d) \cup {k} |-> IF x = k THEN v ELSE d[x]]

\* d.get(k, defawlt)
DictGet(d, k, defawlt) == IF k \in DOMAIN d THEN d[k] ELSE defawlt

\* json.dumps(value, sort_keys=True) of the cache: an object is written as
\* its members in the order of their keys, each a key and the text of its
\* value; the values of a file's entry (a number, a list of names) are
\* written as they are.
json_dumps_entry(entry) ==
  LET keys == sorted(SetToSeq(DOMAIN entry))
  IN [i \in 1..Len(keys) |-> <<keys[i], entry[keys[i]]>>]

json_dumps(cache) ==
  LET keys == sorted(SetToSeq(DOMAIN cache))
  IN [i \in 1..Len(keys) |-> <<keys[i], json_dumps_entry(cache[keys[i]])>>]

\* json.loads: an object's members become a dict; of two members with the
\* same key the later one stays.
json_loads_object(members) ==
  [k \in {members[i][1] : i \in 1..Len(members)} |->
     LET last == CHOOSE i \in 1..Len(members) :
                   /\ members[i][1] = k
                   /\ \A j \in (i + 1)..Len(members) : members[j][1] # k
     IN members[last][2]]

json_loads(text) ==
  LET outer == json_loads_object(text)
  IN [k \in DOMAIN outer |-> json_loads_object(outer[k])]

(***************************************************************************)
(* File handles and the sticky attribute cache (makefile.py).              *)
(***************************************************************************)
\* Bound on the number of generator processes of a behaviour.
MaxRuns == 2

\* Bound on the number of changes made to the files.
MaxTouches == 2

\* Bound on the modification times (milliseconds) of the files.
MaxMtime == 2

\* The source files get_attribute is called on; all are regular files.
Files == {"./a", "./b"}

Mtimes == 0..MaxMtime

\* A line of a file: an include directive in quotes, written at the start
\* of the line.
IncludeLine(name) == [lead |-> FALSE, form |-> "quoted", name |-> name]

\* The contents a file may have.
Contents == {<<>>, <<IncludeLine("b"), IncludeLine("a")>>}

\* handle.lines before the file is read
NotRead == <<"NotRead">>

\* The only sticky attribute (CSourceNode.get_include_names).
INCLUDE_NAMES == "include_names"

\* A Makefile: its target blocks in the order written, the .PHONY line and
\* the META line (each a list of no or one line).
NoFile == [exists |-> FALSE, targets |-> <<>>, phony |-> <<>>, meta |-> <<>>]

\* MakefileTarget: output, the written inputs, and the recipe lines.
MakefileTarget(output, inputs, commands) ==
  [output |-> output, inputs |-> inputs, commands |-> commands]

\* MakefileTarget.write that sorts the inputs as they are.
MakefileTarget_write_NoSet(target) ==
  [target EXCEPT !.inputs = sorted(target.inputs)]

\* MakefileTarget.write: the inputs are written sorted, each path once.
MakefileTarget_write(target) ==
  [target EXCEPT !.inputs = sorted(SetToSeq(Range(target.inputs)))]

\* Makefile.write that lists every target on the .PHONY line.
Makefile_write_AllPhony(targets, phonies, metadata) ==
  LET names == sorted(SetToSeq(DOMAIN targets))
  IN [exists |-> TRUE,
      targets |-> [i \in 1..Len(names) |-> MakefileTarget_write(targets[names[i]])],
      phony |-> <<names>>,
      meta |-> IF DOMAIN metadata # {} THEN <<json_dumps(metadata)>> ELSE <<>>]

\* Makefile.write that writes the META line for every metadata.
Makefile_write_MetaAlways(targets, phonies, metadata) ==
  LET names == sorted(SetToSeq(DOMAIN targets))
  IN [exists |-> TRUE,
      targets |-> [i \in 1..Len(names) |-> MakefileTarget_write(targets[names[i]])],
      phony |-> IF phonies # {} THEN <<sorted(SetToSeq(phonies))>> ELSE <<>>,
      meta |-> <<json_dumps(metadata)>>]

\* Makefile.write with self.targets (a dict output -> target), self.phonies
\* (a set) and self.metadata.
Makefile_write(targets, phonies, metadata) ==
  LET names == sorted(SetToSeq(DOMAIN targets))
  IN [exists |-> TRUE,
      targets |-> [i \in 1..Len(names) |-> MakefileTarget_write(targets[names[i]])],
      phony |-> IF phonies # {} THEN <<sorted(SetToSeq(phonies))>> ELSE <<>>,
      meta |-> IF DOMAIN metadata # {} THEN <<json_dumps(metadata)>> ELSE <<>>]

\* Environment.read_attrib_cache whose pattern matches no line.
Environment_read_attrib_cache_NoMatch(metasource) == EmptyDict

\* Environment.read_attrib_cache
Environment_read_attrib_cache(metasource) ==
  IF metasource.exists /\ metasource.meta # <<>>
  THEN json_loads(metasource.meta[1])
  ELSE EmptyDict

\* _HEADER_PATTERN.match(line)
HeaderPatternMatches(line) == ~line.lead /\ line.form = "quoted"

\* CSourceNode.scan_for_include_names on the lines read
scan_for_include_names(lines) ==
  sorted(SetToSeq({lines[i].name : i \in {j \in 1..Len(lines) : HeaderPatternMatches(lines[j])}}))

\* Environment.peek_file_attribute without the comparison of the times.
Environment_peek_file_attribute_AnyTime(cache, mtime, path, attrib) ==
  IF path \notin DOMAIN cache THEN PyNone
  ELSE IF attrib \in DOMAIN cache[path] THEN PyList(cache[path][attrib]) ELSE PyNone

\* Environment.peek_file_attribute: the persisted value, or PyNone
Environment_peek_file_attribute(cache, mtime, path, attrib) ==
  IF path \notin DOMAIN cache THEN PyNone
  ELSE LET file_cache == cache[path]
           cache_time == DictGet(file_cache, "mtime", 0)
           file_time == mtime[path]
       IN IF cache_time = file_time
          THEN IF attrib \in DOMAIN file_cache THEN PyList(file_cache[attrib]) ELSE PyNone
          ELSE PyNone

\* Environment.set_file_attribute
Environment_set_file_attribute(cache, mtime, path, attrib, value) ==
  LET c1 == IF path \notin DOMAIN cache THEN DictSet(cache, path, EmptyDict) ELSE cache
      file_time == mtime[path]
      cache_time == DictGet(c1[path], "mtime", 0)
      c2 == IF cache_time # file_time
            THEN DictSet(c1, path, DictSet(EmptyDict, "mtime", file_time))
            ELSE c1
  IN DictSet(c2, path, DictSet(c2[path], attrib, value))

\* AbstractFile.get_attribute(name, CSourceNode.scan_for_include_names,
\* sticky) on the handle of a path: the value returned and the cache, the
\* handles' attributes and the handles' lines after the call.
AbstractFile_get_attribute(cache, fattribs, flines, mtime, lines, path, name, sticky) ==
  IF name \in DOMAIN fattribs[path]
  THEN [value |-> fattribs[path][name], cache |-> cache, attribs |-> fattribs,
        lines |-> flines]
  ELSE LET cached == IF sticky THEN Environment_peek_file_attribute(cache, mtime, path, name)
                     ELSE PyNone
       IN IF cached # PyNone
          THEN [value |-> cached.v, cache |-> cache,
                attribs |-> [fattribs EXCEPT ![path] = DictSet(@, name, cached.v)],
                lines |-> flines]
          ELSE LET read == IF flines[path] = NotRead THEN lines[path] ELSE flines[path]
                   value == scan_for_include_names(read)
               IN [value |-> value,
                   cache |-> IF sticky
                             THEN Environment_set_file_attribute(cache, mtime, path, name, value)
                             ELSE cache,
                   attribs |-> [fattribs EXCEPT ![path] = DictSet(@, name, value)],
                   lines |-> [flines EXCEPT ![path] = read]]

(***************************************************************************)
(* Names, paths, contexts and nodes (makefile.py, node.py, extension/c.py).*)
(***************************************************************************)
\* Bound on the node instances a behaviour creates.
MaxNodes == 3

\* Bound on the edges the scripts add to the graph.
MaxEdges == 2

\* The names the scripts pass to the node functions.
NodeNames == {"a"}

\* os.path.join(path, part) on the folders and names of the build tree.
PathTable ==
  { <<".", "a", "./a">>, <<".", "b", "./b">>, <<".", "c", "./c">>,
    <<".", "x", "./x">>, <<".", "y", "./y">>,
    <<"./x", "a", "./x/a">>, <<"./x", "b", "./x/b">>, <<"./x", "c", "./x/c">>,
    <<"./y", "a", "./y/a">>, <<"./y", "b", "./y/b">>, <<"./y", "c", "./y/c">>,
    <<"out", "a", "out/a">>, <<"out", "a.o", "out/a.o">>,
    <<"out", "x", "out/x">>, <<"out", "y", "out/y">>,
    <<"out/x", "a", "out/x/a">>, <<"out/x", "a.o", "out/x/a.o">>,
    <<"out/y", "a", "out/y/a">>, <<"out/y", "a.o", "out/y/a.o">> }

os_path_join(path, part) == (CHOOSE t \in PathTable : t[1] = path /\ t[2] = part)[3]

\* AbstractFile.get_child(*child_path) on the handle of a path
RECURSIVE AbstractFile_get_child(_, _)
AbstractFile_get_child(path, child_path) ==
  IF child_path = <<>> THEN path
  ELSE AbstractFile_get_child(os_path_join(path, Head(child_path)), Tail(child_path))

\* AbstractFile.get_parent of a handle made by get_child
AbstractFile_get_parent(path) == (CHOOSE t \in PathTable : t[3] = path)[1]

\* AbstractFile.exists on the handle of a path: os.path.exists, where the
\* file system fs has an entry for every file there is.
AbstractFile_exists(fs, path) == path \in DOMAIN fs

\* "%s:object" % name
ObjectNodeName(name) == CASE name = "a" -> "a:object"

\* "%s.%s" % (source_name, "o")
ObjectFileName(source_name) == CASE source_name = "a" -> "a.o"

\* "%s_%s" % (prefix, name)
PrefixedName(prefix, name) ==
  CASE prefix = "dep" /\ name = "a" -> "dep_a"
    [] prefix = "lib" /\ name = "a" -> "lib_a"

\* The names of the deps under deps/.
Deps == {"dep", "lib"}

\* The Nodespace objects: the one of the toplevel config and, once
\* include_dep made them, those of the deps (shown as the root script's
\* include_dep makes them).
Nodespaces ==
  [root |-> [prefix |-> PyNone, root |-> ".", bindir |-> "out"],
   dep |-> [prefix |-> PyStr("dep"), root |-> "./deps/dep", bindir |-> "out/deps/dep"],
   lib |-> [prefix |-> PyStr("lib"), root |-> "./deps/lib", bindir |-> "out/deps/lib"]]

\* The ConfigContext objects: the root script's, those of the scripts
\* x/x.mkmk and y/y.mkmk it includes, and those of the scripts of the deps.
ConfigContexts ==
  [root |-> [nodespace |-> "root", home |-> ".", full_name |-> <<>>],
   x |-> [nodespace |-> "root", home |-> "./x", full_name |-> <<"x">>],
   y |-> [nodespace |-> "root", home |-> "./y", full_name |-> <<"y">>],
   dep |-> [nodespace |-> "dep", home |-> "./deps/dep", full_name |-> <<>>],
   lib |-> [nodespace |-> "lib", home |-> "./deps/lib", full_name |-> <<>>]]

\* Name.append / Name.prepend / Name.get_last_part
Name_append(name, part) == Append(name, part)

Name_prepend(name, prefix) == <<prefix>> \o name

Name_get_last_part(name) == name[Len(name)]

\* Edge(target, annots); a node instance is named by the context and the
\* name it was made with.
Edge(target, annots) == [target |-> target, annots |-> annots]

\* Edge.has_annotations
Edge_has_annotations(edge, query) ==
  \A key \in DOMAIN query : key \in DOMAIN edge.annots /\ edge.annots[key] = query[key]

\* The node classes the scripts make.
NodeClasses == {"FileNode", "GroupNode", "AliasNode", "CSourceNode", "ObjectNode"}

NoNode == <<"", "">>

\* Class(full_name.get_last_part(), context, *args): Node.__init__ and, for
\* an object node, the edge to its source that ObjectNode.__init__ adds.
NewNode(Class, name, context, source) ==
  [class |-> Class, name |-> name, context |-> context,
   full_name |-> Name_append(ConfigContexts[context].full_name, name),
   edges |-> IF Class = "ObjectNode" THEN <<Edge(source, [src |-> TRUE])>> ELSE <<>>,
   source |-> source, local_includes |-> {}]

\* isinstance(node, GroupNode)
IsGroupNode(node) == node.class \in {"GroupNode", "AliasNode"}

\* Node.is_phony / VirtualNode.is_phony
Node_is_phony(node) == node.class \in {"GroupNode", "AliasNode"}

\* ConfigContext.get_outdir_file(name)
ConfigContext_get_outdir_file(context, name) ==
  LET full_out_name == Name_append(ConfigContexts[context].full_name, name)
  IN AbstractFile_get_child(Nodespaces[ConfigContexts[context].nodespace].bindir,
                            full_out_name)

\* get_output_file of the classes: the path of the file, or PyNone
Node_get_output_file(heap, node) ==
  CASE node.class = "ObjectNode" ->
         PyStr(ConfigContext_get_outdir_file(node.context,
                                             ObjectFileName(heap[node.source].name)))
    [] OTHER -> PyNone

\* get_output_target of the classes: the target name, or PyNone
Node_get_output_target(heap, node) ==
  CASE node.class = "GroupNode" -> PyNone
    [] node.class = "AliasNode" ->
         LET prefix == Nodespaces[ConfigContexts[node.context].nodespace].prefix
         IN IF prefix = PyNone THEN PyStr(node.name)
            ELSE PyStr(PrefixedName(prefix.v[1], node.name))
    [] OTHER -> Node_get_output_file(heap, node)

\* get_input_file of the classes: the path of the handle
Node_get_input_file(heap, node) ==
  IF node.class \in {"FileNode", "CSourceNode"}
  THEN AbstractFile_get_child(ConfigContexts[node.context].home, <<node.name>>)
  ELSE Node_get_output_file(heap, node).v[1]

\* What an unbounded recursion through a cycle of groups leaves in place of
\* the edges: the RuntimeError of the interpreter.
RecursionError == Edge(NoNode, EmptyDict)

\* Node.get_flat_edges with a GroupNode.get_flat_edges_through that hands the
\* query on to the members even when the edge into the group satisfies it.
RECURSIVE Node_get_flat_edges_KeepQuery(_, _, _, _, _)
Node_get_flat_edges_KeepQuery(heap, i, k, annots, depth) ==
  IF k > Len(heap[i].edges) THEN <<>>
  ELSE LET edge == heap[i].edges[k]
           through ==
             IF IsGroupNode(heap[edge.target])
             THEN IF depth = 0 THEN <<RecursionError>>
                  ELSE Node_get_flat_edges_KeepQuery(heap, edge.target, 1, annots, depth - 1)
             ELSE IF Edge_has_annotations(edge, annots) THEN <<edge>> ELSE <<>>
       IN through \o Node_get_flat_edges_KeepQuery(heap, i, k + 1, annots, depth)

\* Node.get_flat_edges(**annots) from the k-th edge of node i on, with
\* Node.get_flat_edges_through and GroupNode.get_flat_edges_through for the
\* targets; depth is the nesting the interpreter still allows.
RECURSIVE Node_get_flat_edges(_, _, _, _, _)
Node_get_flat_edges(heap, i, k, annots, depth) ==
  IF k > Len(heap[i].edges) THEN <<>>
  ELSE LET edge == heap[i].edges[k]
           through ==
             IF IsGroupNode(heap[edge.target])
             THEN IF depth = 0 THEN <<RecursionError>>
                  ELSE Node_get_flat_edges(heap, edge.target, 1,
                         IF Edge_has_annotations(edge, annots) THEN EmptyDict ELSE annots,
                         depth - 1)
             ELSE IF Edge_has_annotations(edge, annots) THEN <<edge>> ELSE <<>>
       IN through \o Node_get_flat_edges(heap, i, k + 1, annots, depth)

\* Node.get_input_paths(**annots)
Node_get_input_paths(heap, i, annots) ==
  LET edges == Node_get_flat_edges(heap, i, 1, annots, Cardinality(DOMAIN heap))
  IN [k \in 1..Len(edges) |-> Node_get_input_file(heap, heap[edges[k].target])]


\* Node.get_input_nodes(**annots): the targets of the flattened edges, or the
\* RuntimeError in which a cycle of groups ends.
Node_get_input_nodes(heap, i, annots) ==
  LET edges == Node_get_flat_edges(heap, i, 1, annots, Cardinality(DOMAIN heap))
  IN IF RecursionError \in Range(edges) THEN PyError("RuntimeError")
     ELSE PyList([k \in 1..Len(edges) |-> edges[k].target])
\* One call of resolve_include without the test of files_scanned in
\* scan_file: a file that was scanned is scanned again when a name resolves
\* to it.
resolve_step_Rescan(st, pending, folders, mtime, lines) ==
  LET name == Head(pending)
      rest == Tail(pending)
      found == {k \in 1..Len(folders) :
                  AbstractFile_exists(mtime, os_path_join(folders[k], name))}
      seen == [st EXCEPT !.names_seen = @ \cup {name}, !.resolves = Append(@, name)]
      scanned(candidate, r) ==
        [st |-> [seen EXCEPT !.headers = @ \cup {candidate},
                             !.files_scanned = @ \cup {candidate},
                             !.scans = Append(@, candidate),
                             !.cache = r.cache, !.attribs = r.attribs, !.lines = r.lines],
         pending |-> r.value \o rest]
      resolved(candidate) ==
        IF candidate \in st.headers THEN [st |-> seen, pending |-> rest]
        ELSE CHOOSE next \in
               {scanned(candidate, r) :
                  r \in {AbstractFile_get_attribute(st.cache, st.attribs, st.lines, mtime,
                           lines, candidate, INCLUDE_NAMES, TRUE)}} : TRUE
  IN IF name \in st.names_seen THEN [st |-> st, pending |-> rest]
     ELSE IF found = {} THEN [st |-> seen, pending |-> rest]
     ELSE CHOOSE next \in
            {resolved(candidate) :
               candidate \in {os_path_join(folders[CHOOSE k \in found :
                                                      \A j \in found : k <= j], name)}} : TRUE

\* One call of resolve_include(name) for the first of the pending names,
\* with the scan_file(candidate) it makes up to the loop over the names of
\* the candidate.  st carries the headers found, the paths scanned, the
\* names seen, and the cache and the handles, which get_include_names
\* changes; pending holds the include names still to resolve, those of the
\* file scanned last first.
resolve_step(st, pending, folders, mtime, lines) ==
  LET name == Head(pending)
      rest == Tail(pending)
      found == {k \in 1..Len(folders) :
                  AbstractFile_exists(mtime, os_path_join(folders[k], name))}
      seen == [st EXCEPT !.names_seen = @ \cup {name}, !.resolves = Append(@, name)]
      scanned(candidate, r) ==
        [st |-> [seen EXCEPT !.headers = @ \cup {candidate},
                             !.files_scanned = @ \cup {candidate},
                             !.scans = Append(@, candidate),
                             !.cache = r.cache, !.attribs = r.attribs, !.lines = r.lines],
         pending |-> r.value \o rest]
      resolved(candidate) ==
        IF candidate \in st.headers THEN [st |-> seen, pending |-> rest]
        ELSE IF candidate \in st.files_scanned
        THEN [st |-> [seen EXCEPT !.headers = @ \cup {candidate}], pending |-> rest]
        ELSE CHOOSE next \in
               {scanned(candidate, r) :
                  r \in {AbstractFile_get_attribute(st.cache, st.attribs, st.lines, mtime,
                           lines, candidate, INCLUDE_NAMES, TRUE)}} : TRUE
  IN IF name \in st.names_seen THEN [st |-> st, pending |-> rest]
     ELSE IF found = {} THEN [st |-> seen, pending |-> rest]
     ELSE CHOOSE next \in
            {resolved(candidate) :
               candidate \in {os_path_join(folders[CHOOSE k \in found :
                                                      \A j \in found : k <= j], name)}} : TRUE

\* CSourceNode.calc_included_headers after scan_file(self.handle) has
\* started, up to its return: the pending names are resolved one by one.
RECURSIVE resolve_includes(_, _, _, _, _)
resolve_includes(st, pending, folders, mtime, lines) ==
  IF pending = <<>> THEN st
  ELSE CHOOSE result \in
         {resolve_includes(n.st, n.pending, folders, mtime, lines) :
            n \in {resolve_step(st, pending, folders, mtime, lines)}} : TRUE

\* get_local_includes that returns the folders in descending order.
CSourceNode_get_local_includes_Descending(includes) ==
  LET ascending == sorted(SetToSeq(includes))
  IN [i \in 1..Len(ascending) |-> ascending[Len(ascending) + 1 - i]]

\* CSourceNode.get_local_includes: the folders added with add_include,
\* sorted.
CSourceNode_get_local_includes(includes) == sorted(SetToSeq(includes))

\* The search folders of calc_included_headers.
IncludeSearchFolders(path, includes) ==
  <<AbstractFile_get_parent(path)>> \o CSourceNode_get_local_includes(includes)

\* calc_included_headers up to the loop of scan_file(self.handle) over the
\* include names of the source: the state and the pending names.
calc_included_headers_start(cache, fattribs, flines, mtime, lines, path) ==
  LET start == [headers |-> {}, files_scanned |-> {}, names_seen |-> {},
                scans |-> <<>>, resolves |-> <<>>,
                cache |-> cache, attribs |-> fattribs, lines |-> flines]
      scanned(r) == [st |-> [start EXCEPT !.files_scanned = {path}, !.scans = <<path>>,
                                          !.cache = r.cache, !.attribs = r.attribs,
                                          !.lines = r.lines],
                     pending |-> r.value]
  IN IF ~AbstractFile_exists(mtime, path) THEN [st |-> start, pending |-> <<>>]
     ELSE CHOOSE next \in
            {scanned(r) : r \in {AbstractFile_get_attribute(cache, fattribs, flines, mtime,
                                     lines, path, INCLUDE_NAMES, TRUE)}} : TRUE

\* CSourceNode.calc_included_headers of the source whose handle is at path
\* and whose local includes are the given folders: the sorted paths of the
\* headers, and the cache and the handles after it.
CSourceNode_calc_included_headers(cache, fattribs, flines, mtime, lines, path, includes) ==
  CHOOSE result \in
    {[d EXCEPT !.headers = sorted(SetToSeq(d.headers))] :
       d \in {resolve_includes(b.st, b.pending, IncludeSearchFolders(path, includes),
                               mtime, lines) :
                b \in {calc_included_headers_start(cache, fattribs, flines, mtime, lines,
                                                    path)}}} : TRUE
(***************************************************************************)
(* Commands and Environment.write_makefile.                                *)
(***************************************************************************)
\* Command(*parts).set_comment(comment); a part and a comment are lists of
\* words, and no comment is the empty list.
Command(parts, comment) == [parts |-> parts, comment |-> comment]

\* Command.get_actions(env) in a run without --noisy
Command_get_actions(command) ==
  (IF command.comment # <<>> THEN << <<"@echo">> \o command.comment >> ELSE <<>>)
    \o [k \in 1..Len(command.parts) |-> <<"@">> \o command.parts[k]]

\* PosixSystem.get_ensure_folder_command that sets a comment on the command,
\* as get_clear_folder_command does.
PosixSystem_get_ensure_folder_command_Commented(folder) ==
  Command(<< <<"mkdir", "-p", folder>> >>, <<"Creating", folder>>)

\* PosixSystem.get_ensure_folder_command
PosixSystem_get_ensure_folder_command(folder) ==
  Command(<< <<"mkdir", "-p", folder>> >>, <<>>)

\* PosixSystem.get_clear_folder_command
PosixSystem_get_clear_folder_command(folder) ==
  Command(<< <<"rm", "-rf", folder>> >>, <<"Clearing", folder>>)

\* Gcc.get_object_compile_command for a C source without include paths or
\* defines, under the default flags and an empty Settings store.
Gcc_get_object_compile_command(output, inputs, basename) ==
  Command(<< <<"$(CC)", "$(CFLAGS)", "-DENABLE_CHECKS=1", "-O3", "-Werror", "-c", "-o",
               output>> \o inputs >>,
          <<"Building", basename>>)

\* node.get_command_line(system), or no command (None)
Node_get_command_line(heap, i) ==
  LET node == heap[i]
  IN CASE node.class = "ObjectNode" ->
            <<Gcc_get_object_compile_command(Node_get_output_file(heap, node).v[1],
                                             Node_get_input_paths(heap, i, [src |-> TRUE]),
                                             ObjectFileName(heap[node.source].name))>>
       [] OTHER -> <<>>

\* The file at the Makefile path after open(makefile, "wt").
Truncated == [exists |-> TRUE, targets |-> <<>>, phony |-> <<>>, meta |-> <<>>]

\* The loop of Environment.write_makefile over self.all_nodes.values() in
\* the given order of the keys.  acc holds the targets and phonies of the
\* Makefile object, and the cache and the handles, which the scan for the
\* computed dependencies changes.
RECURSIVE write_makefile_nodes(_, _, _, _, _, _)
write_makefile_nodes(acc, heap, registry, order, mtime, lines) ==
  IF order = <<>> \/ acc.error THEN acc
  ELSE LET i == registry[Head(order)]
           node == heap[i]
           output_target == Node_get_output_target(heap, node)
           all_edges == Node_get_flat_edges(heap, i, 1, EmptyDict, Cardinality(DOMAIN heap))
       IN IF output_target = PyNone
          THEN write_makefile_nodes(acc, heap, registry, Tail(order), mtime, lines)
          ELSE IF RecursionError \in Range(all_edges)
          THEN [acc EXCEPT !.error = TRUE]
          ELSE LET direct_input_files ==
                     [k \in 1..Len(all_edges) |->
                        Node_get_input_file(heap, heap[all_edges[k].target])]
                   extra ==
                     IF node.class = "ObjectNode"
                     THEN CSourceNode_calc_included_headers(acc.cache, acc.attribs, acc.lines,
                            mtime, lines, Node_get_input_file(heap, heap[node.source]),
                            heap[node.source].local_includes)
                     ELSE [headers |-> <<>>, cache |-> acc.cache, attribs |-> acc.attribs,
                           lines |-> acc.lines]
                   input_paths == direct_input_files \o extra.headers
                   output_file == Node_get_output_file(heap, node)
                   mkdir_actions ==
                     IF output_file # PyNone
                     THEN Command_get_actions(PosixSystem_get_ensure_folder_command(
                            AbstractFile_get_parent(output_file.v[1])))
                     ELSE <<>>
                   process_command == Node_get_command_line(heap, i)
                   process_actions ==
                     IF process_command # <<>> THEN Command_get_actions(process_command[1])
                     ELSE <<>>
                   target == MakefileTarget(output_target.v[1], input_paths,
                                            mkdir_actions \o process_actions)
               IN write_makefile_nodes(
                    [targets |-> DictSet(acc.targets, output_target.v[1], target),
                     phonies |-> IF Node_is_phony(node)
                                 THEN acc.phonies \cup {output_target.v[1]}
                                 ELSE acc.phonies,
                     cache |-> extra.cache, attribs |-> extra.attribs, lines |-> extra.lines,
                     error |-> FALSE],
                    heap, registry, Tail(order), mtime, lines)

\* Environment.write_makefile(open(makefile, "wt"), bindir): the file
\* written, and the cache and the handles afterwards; a RuntimeError leaves
\* the file as open made it.
Environment_write_makefile(heap, registry, order, cache, fattribs, flines, mtime, lines) ==
  LET clean_actions == Command_get_actions(PosixSystem_get_clear_folder_command("out"))
      written(acc) ==
        [error |-> acc.error,
         makefile |-> IF acc.error THEN Truncated
                      ELSE Makefile_write(
                             DictSet(acc.targets, "clean",
                                     MakefileTarget("clean", <<>>, clean_actions)),
                             acc.phonies \cup {"clean"}, acc.cache),
         cache |-> acc.cache, attribs |-> acc.attribs, lines |-> acc.lines]
  IN written(write_makefile_nodes(
               [targets |-> EmptyDict, phonies |-> {}, cache |-> cache, attribs |-> fattribs,
                lines |-> flines, error |-> FALSE],
               heap, registry, order, mtime, lines))

\* The orders in which a dict may hand out its keys.
RECURSIVE Orders(_)
Orders(keys) ==
  IF keys = {} THEN {<<>>}
  ELSE UNION {{<<k>> \o rest : rest \in Orders(keys \ {k})} : k \in keys}

(***************************************************************************)
(* Shell escaping, the command builders and the recipe lines they build.   *)
(* A string is a list of characters here.                                  *)
(***************************************************************************)
\* The longest argument handed to a builder.
MaxLen == 3

\* The highest exit status of the built program.
MaxExit == 3

\* The characters of the arguments: a letter, and one of each kind the
\* pattern [\s()\\] names.
Chars == {"a", " ", "(", ")", "\\"}

\* The characters the pattern [\s()\\] matches.
EscapedChars == {" ", "(", ")", "\\"}

\* The strings of at most n characters.
Strings(n) == UNION {[1..k -> Chars] : k \in 0..n}

\* shell_escape that leaves the backslash alone.
RECURSIVE shell_escape_NoBackslash(_)
shell_escape_NoBackslash(s) ==
  IF s = <<>> THEN <<>>
  ELSE (IF Head(s) \in EscapedChars \ {"\\"} THEN <<"\\", Head(s)>> ELSE <<Head(s)>>)
         \o shell_escape_NoBackslash(Tail(s))

\* shell_escape(s): re.sub(r'([\s()\\])', r"\\\g<1>", s)
RECURSIVE shell_escape(_)
shell_escape(s) ==
  IF s = <<>> THEN <<>>
  ELSE (IF Head(s) \in EscapedChars THEN <<"\\", Head(s)>> ELSE <<Head(s)>>)
         \o shell_escape(Tail(s))

\* " ".join(words)
RECURSIVE join(_)
join(words) ==
  IF words = <<>> THEN <<>>
  ELSE IF Len(words) = 1 THEN words[1]
  ELSE words[1] \o <<" ">> \o join(Tail(words))

\* The file of a path, and of a path with a suffix.
ShFile(path) == <<path>>
ShFileWith(path, suffix) == <<path, suffix>>

\* The parts a shell line is made of.
ShExec(command_line) == [op |-> "exec", args |-> <<command_line>>]
ShRedirect(command, file) == [op |-> ">", args |-> <<command, file>>]
ShEcho(file) == [op |-> "echo >", args |-> <<file>>]
ShOr(a, b) == [op |-> "||", args |-> <<a, b>>]
ShAnd(a, b) == [op |-> "&&", args |-> <<a, b>>]
ShSeq(a, b) == [op |-> ";", args |-> <<a, b>>]
ShCat(file) == [op |-> "cat", args |-> <<file>>]
ShRm(a, b) == [op |-> "rm", args |-> <<a, b>>]
ShExit(status) == [op |-> "exit", args |-> <<status>>]
ShIfExists(file, then, else) == [op |-> "if -f", args |-> <<file, then, else>>]

\* What the shell does with a line: the files afterwards and the exit
\* status.  The built program ends with the status inner; a redirection
\* creates its file before the program runs; cat and rm fail on a file that
\* does not exist.
RECURSIVE sh(_, _, _)
sh(line, files, inner) ==
  LET a == line.args
  IN CASE line.op = "exec" -> [files |-> files, status |-> inner]
       [] line.op = ">" -> sh(a[1], files \cup {a[2]}, inner)
       [] line.op = "echo >" -> [files |-> files \cup {a[1]}, status |-> 0]
       [] line.op = "||" ->
            LET first(r) == IF r.status = 0 THEN r ELSE sh(a[2], r.files, inner)
            IN first(sh(a[1], files, inner))
       [] line.op = "&&" ->
            LET first(r) == IF r.status # 0 THEN r ELSE sh(a[2], r.files, inner)
            IN first(sh(a[1], files, inner))
       [] line.op = ";" ->
            LET first(r) == sh(a[2], r.files, inner)
            IN first(sh(a[1], files, inner))
       [] line.op = "cat" ->
            [files |-> files, status |-> IF a[1] \in files THEN 0 ELSE 1]
       [] line.op = "rm" ->
            [files |-> files \ {a[1], a[2]},
             status |-> IF {a[1], a[2]} \subseteq files THEN 0 ELSE 1]
       [] line.op = "exit" -> [files |-> files, status |-> a[1]]
       [] line.op = "if -f" ->
            IF a[1] \in files THEN sh(a[2], files, inner) ELSE sh(a[3], files, inner)

\* The raw command of a builder without environment bindings:
\* "%s %s" % (self.executable, " ".join(map(shell_escape, self.args)))
CommandBuilder_raw_command(executable, args) ==
  executable \o <<" ">> \o join([k \in 1..Len(args) |-> shell_escape(args[k])])

\* PosixCommandBuilder.build with a tee destination and no comment
PosixCommandBuilder_build(executable, args, tee_dest) ==
  LET command_line == ShExec(CommandBuilder_raw_command(executable, args))
      outpath == ShFile(tee_dest)
      fail == ShFileWith(tee_dest, ".fail")
  IN Command(<<ShOr(ShRedirect(command_line, outpath), ShEcho(fail)),
               ShCat(outpath),
               ShIfExists(fail, ShSeq(ShRm(outpath, fail), ShExit(1)), ShExit(0))>>,
             <<>>)

\* WindowsCommandBuilder.build with a tee destination and no comment
WindowsCommandBuilder_build(executable, args, tee_dest) ==
  LET command_line == ShExec(CommandBuilder_raw_command(executable, args))
      outpath == ShFile(tee_dest)
      fail == ShFileWith(tee_dest, ".fail")
  IN Command(<<ShOr(ShRedirect(command_line, outpath), ShEcho(fail)),
               ShCat(outpath),
               ShIfExists(fail, ShAnd(ShRm(outpath, fail), ShExit(1)), ShExit(0))>>,
             <<>>)

\* system.get(os).new_command_builder(executable, *args)
\*   .set_tee_destination(tee_dest).build()
System_build(os, executable, args, tee_dest) ==
  IF os = "windows" THEN WindowsCommandBuilder_build(executable, args, tee_dest)
  ELSE PosixCommandBuilder_build(executable, args, tee_dest)
(***************************************************************************)
(* The custom-exec nodes and their command lines.                          *)
(***************************************************************************)
\* The classes of custom-exec nodes the tools make.
ExecClasses == {"SystemExecNode", "ExecTestCaseNode"}

\* The methods of the System classes.
SystemMethods ==
  {"get_os", "get_ensure_folder_command", "new_command_builder", "get_clear_folder_command",
   "get_copy_command", "auto_resolve_library"}

\* os.path.splitext(subject)[0]
splitext_root(subject) == CASE subject = "a.c" -> "a" [] subject = "a" -> "a"

\* "%s.run" % subject_root
RunFileName(subject_root) == CASE subject_root = "a" -> "a.run"

\* CustomExecNode.get_output_file / ExecTestCaseNode.get_output_file: the
\* name handed to get_outdir_file
CustomExecNode_output_name(node) ==
  IF node.class = "ExecTestCaseNode" THEN RunFileName(splitext_root(node.subject))
  ELSE node.subject

\* should_tee_output of the classes
CustomExecNode_should_tee_output(node) == node.class = "ExecTestCaseNode"

AttributeError == PyError("AttributeError")

\* CustomExecNode.get_command_line(system): the Command, or the error of a
\* call of a method the system does not have.
CustomExecNode_get_command_line(node) ==
  LET runner == node.runner
      args == join(node.args)
      raw_command_line == runner \o <<" ">> \o args
      title == <<"Running", node.name>>
  IN IF Len(node.env) > 0 /\ "run_with_environment" \notin SystemMethods
     THEN AttributeError
     ELSE IF CustomExecNode_should_tee_output(node)
               /\ "get_safe_tee_command" \notin SystemMethods
     THEN AttributeError
     ELSE Command(<<raw_command_line>>, title)
(***************************************************************************)
(* The flags of a compile command (extension/c.py, Gcc).  A Python list is *)
(* an object: += on the list a call returned changes the list in place,    *)
(* so it matters whether Settings.get returned a stored list or a new one. *)
(***************************************************************************)
\* Bound on the number of get_config_flags calls of a behaviour.
MaxCommands == 2

\* The value is a list made by the call itself.
Fresh == <<>>

\* Which object Setting.get returns: the value of the entry at a position
\* of self.values (matches[0] is that object), or a list of its own (the
\* default the caller wrote as [], the result of reduce).
Setting_get_origin(t, setting, context) ==
  LET active == {i \in 1..Len(setting.values) :
                   Setting_is_active(setting.values[i].restrictions, context)}
  IN IF active = {} \/ setting.is_additive \/ Cardinality(active) # 1 THEN Fresh
     ELSE <<t, CHOOSE i \in active : TRUE>>

\* Which object Settings.get returns: the + of line 71 makes a new list.
RECURSIVE Settings_get_origin(_, _, _, _, _)
Settings_get_origin(st, s, name, context, only_sticky) ==
  LET attrib == st[s][name]
  IN IF (~attrib.bound) \/ (only_sticky /\ ~attrib.is_sticky)
     THEN IF SettingsParent(s) = NoSettings
          THEN Fresh
          ELSE Settings_get_origin(st, SettingsParent(s), name, context, TRUE)
     ELSE IF attrib.is_additive /\ SettingsParent(s) # NoSettings
     THEN Fresh
     ELSE Setting_get_origin(s, attrib, context)

\* The flags get_config_flags appends to the cflags under the default
\* options, with no warnings set: the defines, the optimisation level and
\* -Werror.
ConfigFlags == <<"-DENABLE_CHECKS=1", "-O3", "-Werror">>

\* Gcc.get_config_flags(inputs, is_cpp, settings) for the Settings of a node
\* of the context whose Settings is s; a node's Settings binds nothing, so
\* its get is the get of s for sticky bindings.  The flags returned, and
\* the store after the call.
Gcc_get_config_flags(st, s, is_cpp) ==
  LET context == Gcc_get_settings_context(is_cpp)
      result == Settings_get(st, s, "cflags", context, PyList(<<>>), TRUE)
      origin == Settings_get_origin(st, s, "cflags", context, TRUE)
  IN IF IsError(result) THEN [flags |-> result, attribs |-> st]
     ELSE IF result.t # "list" THEN [flags |-> PyError("TypeError"), attribs |-> st]
     ELSE [flags |-> PyList(result.v \o ConfigFlags),
           attribs |-> IF origin = Fresh THEN st
                       ELSE [st EXCEPT ![origin[1]]["cflags"].values[origin[2]].value =
                                         PyList(result.v \o ConfigFlags)]]
(***************************************************************************)
(* Library instances and their automatic resolution (makefile.py,          *)
(* system.py, extension/c.py).                                             *)
(***************************************************************************)
\* A word of the output of pkg-config: its first two characters and the
\* rest.
Word(prefix, rest) == [prefix |-> prefix, rest |-> rest]

\* [f[2:] for f in flags if f.startswith(prefix)]
RECURSIVE FlagsWith(_, _)
FlagsWith(flags, prefix) ==
  IF flags = <<>> THEN <<>>
  ELSE (IF Head(flags).prefix = prefix THEN <<Head(flags).rest>> ELSE <<>>)
         \o FlagsWith(Tail(flags), prefix)

\* PosixSystem.auto_resolve_library(name) when pkg-config ends with the
\* return code and the words of output given: the process exits, or the
\* includes and the libs.
PosixSystem_auto_resolve_library(returncode, flags) ==
  IF returncode # 0 THEN [exit |-> TRUE, includes |-> <<>>, libs |-> <<>>]
  ELSE [exit |-> FALSE, includes |-> FlagsWith(flags, "-I"), libs |-> FlagsWith(flags, "-l")]

\* LibraryInstance(includes, libs, autoresolve)
LibraryInstance(includes, libs, autoresolve) ==
  [includes |-> includes, libs |-> libs, autoresolve |-> autoresolve]

\* LibraryInstance.ensure_auto_resolved that resolves at every call.
LibraryInstance_ensure_auto_resolved_Always(instance, returncode, flags) ==
  LET resolved == PosixSystem_auto_resolve_library(returncode, flags)
  IN [ran |-> TRUE, exit |-> resolved.exit, error |-> FALSE,
      instance |-> IF resolved.exit THEN instance
                   ELSE LibraryInstance(PyList(resolved.includes), PyList(resolved.libs),
                                        instance.autoresolve)]

\* LibraryInstance.ensure_auto_resolved(system): whether pkg-config ran,
\* whether the process exited or the assertion failed, and the instance
\* afterwards.
LibraryInstance_ensure_auto_resolved(instance, returncode, flags) ==
  IF instance.autoresolve = PyNone
  THEN [ran |-> FALSE, exit |-> FALSE, error |-> FALSE, instance |-> instance]
  ELSE IF ~(instance.includes = PyNone /\ instance.libs = PyNone)
  THEN [ran |-> FALSE, exit |-> FALSE, error |-> TRUE, instance |-> instance]
  ELSE LET resolved == PosixSystem_auto_resolve_library(returncode, flags)
       IN [ran |-> TRUE, exit |-> resolved.exit, error |-> FALSE,
           instance |-> IF resolved.exit THEN instance
                        ELSE LibraryInstance(PyList(resolved.includes),
                                             PyList(resolved.libs), PyNone)]

\* ObjectNode.add_library(lib) on an object whose source has the system
\* includes and whose libraries are given: the instance, the two sets and
\* what the call added afterwards.
ObjectNode_add_library(instance, includes, libs, returncode, flags) ==
  LET ensured == LibraryInstance_ensure_auto_resolved(instance, returncode, flags)
      stopped == ensured.exit \/ ensured.error
  IN [ran |-> ensured.ran, exit |-> ensured.exit, error |-> ensured.error,
      instance |-> ensured.instance,
      added_includes |-> IF stopped THEN <<>> ELSE ensured.instance.includes.v,
      added_libs |-> IF stopped THEN <<>> ELSE ensured.instance.libs.v,
      system_includes |-> IF stopped THEN includes
                          ELSE includes \cup Range(ensured.instance.includes.v),
      libraries |-> IF stopped THEN libs ELSE libs \cup Range(ensured.instance.libs.v)]
(***************************************************************************)
(* The constructors of the node classes and the names they store           *)
(* (node.py, extension/*.py).                                              *)
(***************************************************************************)
\* The classes get_or_create_node is called with.
CreatedClasses ==
  {"FileNode", "GroupNode", "AliasNode", "CustomExecNode", "SystemExecNode", "CopyNode",
   "CSourceNode", "ObjectNode", "ExecutableNode", "SharedLibraryNode",
   "MessageResourceNode", "EnvPrinterNode", "NSourceNode", "NLibrary", "NProgram",
   "TocNode", "ExecTestCaseNode"}

\* The node itself as a Python value: the instance made for the full name.
PyNode(full_name) == [t |-> "node", v |-> <<full_name>>]

\* The parts of a Name of strings as Python values.
NameParts(name) == [k \in 1..Len(name) |-> PyStr(name[k])]

\* The name Class.__init__(self, name, context, ...) hands to
\* Node.__init__ through the super calls: name, but CopyNode hands self.
Constructor_name(Class, name, full_name) ==
  IF Class = "CopyNode" THEN PyNode(full_name) ELSE PyStr(name)

\* Node.__init__(name, context): the name and the full name stored.
Node_init(Class, name, context) ==
  [class |-> Class, context |-> context, name |-> name,
   full_name |-> Name_append(NameParts(ConfigContexts[context].full_name), name)]

\* Node.get_name / Node.get_full_name
Node_get_name(node) == node.name

Node_get_full_name(node) == node.full_name

\* Nodespace.get_or_create_node(full_name, Class, context, *args) on the
\* nodes of one nodespace: the nodes afterwards.
Nodespace_create_named(registered, full_name, Class, context) ==
  IF full_name \in DOMAIN registered THEN registered
  ELSE DictSet(registered, full_name,
               Node_init(Class,
                         Constructor_name(Class, Name_get_last_part(full_name), full_name),
                         context))
(***************************************************************************)
(* The generator processes and the files (SpecCache).                      *)
(***************************************************************************)
\* No value was returned yet.
NothingReturned == [path |-> "", value |-> <<>>]

\* Environment.__init__: a generator process starts and reads the cache
\* from the Makefile the previous process left.
StartRun ==
  /\ run_pc = "emitted"
  /\ nruns < MaxRuns
  /\ nruns' = nruns + 1
  /\ run_pc' = "running"
  /\ attrib_cache' = Environment_read_attrib_cache(makefile)
  /\ file_attribs' = [f \in Files |-> EmptyDict]
  /\ file_lines' = [f \in Files |-> NotRead]
  /\ returned' = NothingReturned
  /\ UNCHANGED <<fs_mtime, fs_lines, makefile, ntouches>>
  /\ UNCHANGED <<settingsVars, graphVars, shellVars, depVars, execVars, headerVars, flagVars, scanVars, flatVars, libVars, nameVars>>

\* CSourceNode.get_include_names(handle)
GetIncludeNames(f) ==
  /\ run_pc = "running"
  /\ LET r == AbstractFile_get_attribute(attrib_cache, file_attribs, file_lines, fs_mtime,
                                         fs_lines, f, INCLUDE_NAMES, TRUE)
     IN /\ attrib_cache' = r.cache
        /\ file_attribs' = r.attribs
        /\ file_lines' = r.lines
        /\ returned' = [path |-> f, value |-> r.value]
  /\ UNCHANGED <<fs_mtime, fs_lines, makefile, run_pc, nruns, ntouches>>
  /\ UNCHANGED <<settingsVars, graphVars, shellVars, depVars, execVars, headerVars, flagVars, scanVars, flatVars, libVars, nameVars>>

\* The user edits a file: its time and its lines change.
TouchFile(f, mtime, lines) ==
  /\ ntouches < MaxTouches
  /\ mtime # fs_mtime[f]
  /\ fs_mtime' = [fs_mtime EXCEPT ![f] = mtime]
  /\ fs_lines' = [fs_lines EXCEPT ![f] = lines]
  /\ ntouches' = ntouches + 1
  /\ UNCHANGED <<attrib_cache, file_attribs, file_lines, returned, makefile, run_pc, nruns>>
  /\ UNCHANGED <<settingsVars, graphVars, shellVars, depVars, execVars, headerVars, flagVars, scanVars, flatVars, libVars, nameVars>>

\* Environment.write_makefile at the end of MkMkMakefile.run, with the dict
\* of all nodes handing out its keys in the given order.
write_makefile(order) ==
  /\ run_pc = "running"
  /\ \E r \in {Environment_write_makefile(nodes, all_nodes, order, attrib_cache, file_attribs,
                                          file_lines, fs_mtime, fs_lines)} :
       /\ makefile' = r.makefile
       /\ run_pc' = IF r.error THEN "failed" ELSE "emitted"
       /\ attrib_cache' = r.cache
       /\ file_attribs' = r.attribs
       /\ file_lines' = r.lines
  /\ UNCHANGED <<fs_mtime, fs_lines, returned, nruns, ntouches>>
  /\ UNCHANGED <<settingsVars, graphVars, shellVars, depVars, execVars, headerVars, flagVars, scanVars, flatVars, libVars, nameVars>>

\* The first process starts with no Makefile on disk.
InitCache ==
  /\ fs_mtime = [f \in Files |-> 1]
  /\ fs_lines \in [Files -> Contents]
  /\ makefile = NoFile
  /\ attrib_cache = Environment_read_attrib_cache(NoFile)
  /\ file_attribs = [f \in Files |-> EmptyDict]
  /\ file_lines = [f \in Files |-> NotRead]
  /\ returned = NothingReturned
  /\ run_pc = "running"
  /\ nruns = 1
  /\ ntouches = 0

\* The cache and the files while another specification runs.
IdleCache ==
  /\ fs_mtime = [f \in Files |-> 1]
  /\ fs_lines = [f \in Files |-> <<>>]
  /\ makefile = NoFile
  /\ attrib_cache = EmptyDict
  /\ file_attribs = [f \in Files |-> EmptyDict]
  /\ file_lines = [f \in Files |-> NotRead]
  /\ returned = NothingReturned
  /\ run_pc = "running"
  /\ nruns = 1
  /\ ntouches = 0

(***************************************************************************)
(* A builder builds a teed command and make runs its recipe (SpecShell).   *)
(***************************************************************************)
\* The program the command runs and the file its output goes to.
Executable == <<"a">>
TeeDest == "out/a.run"

\* No builder has built yet.
NotBuilt == Command(<<>>, <<>>)

\* new_command_builder(executable, arg).set_tee_destination(dest).build()
build ==
  /\ sh_command = NotBuilt
  /\ sh_command' = System_build(sh_os, Executable, <<sh_arg>>, TeeDest)
  /\ UNCHANGED <<sh_os, sh_arg, sh_inner, sh_files, sh_line, sh_status>>
  /\ UNCHANGED <<settingsVars, cacheVars, graphVars, depVars, execVars, headerVars, flagVars, scanVars, flatVars, libVars, nameVars>>

\* make runs the next line of the recipe; it stops at a line that fails.
make_line ==
  /\ sh_command # NotBuilt
  /\ sh_line <= Len(sh_command.parts)
  /\ sh_status = 0
  /\ \E r \in {sh(sh_command.parts[sh_line], sh_files, sh_inner)} :
       /\ sh_files' = r.files
       /\ sh_status' = r.status
  /\ sh_line' = sh_line + 1
  /\ UNCHANGED <<sh_os, sh_arg, sh_inner, sh_command>>
  /\ UNCHANGED <<settingsVars, cacheVars, graphVars, depVars, execVars, headerVars, flagVars, scanVars, flatVars, libVars, nameVars>>

\* Any platform, argument and exit status, and any files left behind by an
\* earlier build.
InitShell ==
  /\ sh_os \in {"posix", "windows"}
  /\ sh_arg \in Strings(MaxLen)
  /\ sh_inner \in 0..MaxExit
  /\ sh_files \in SUBSET {ShFile(TeeDest), ShFileWith(TeeDest, ".fail")}
  /\ sh_command = NotBuilt
  /\ sh_line = 1
  /\ sh_status = 0

\* The builder while another specification runs.
IdleShell ==
  /\ sh_os = "posix"
  /\ sh_arg = <<>>
  /\ sh_inner = 0
  /\ sh_files = {}
  /\ sh_command = NotBuilt
  /\ sh_line = 1
  /\ sh_status = 0
(***************************************************************************)
(* get_command_line on a custom-exec node (SpecExec).                      *)
(***************************************************************************)
\* get_command_line was not called yet.
NotCalled == PyNone

\* An environment binding as add_env stores it.
EnvBinding == <<"PATH", "out", "replace">>

\* write_makefile asks the node for its command line.
get_command_line ==
  /\ exec_result = NotCalled
  /\ exec_result' = CustomExecNode_get_command_line(exec_node)
  /\ UNCHANGED exec_node
  /\ UNCHANGED <<settingsVars, cacheVars, graphVars, shellVars, depVars, headerVars, flagVars, scanVars, flatVars, libVars, nameVars>>

\* A node of either class as a script configured it: the runner or command
\* set, one argument, and an env binding or none.
InitExec ==
  /\ exec_node \in [class : ExecClasses, name : {"a:test"}, subject : {"a.c"},
                    runner : {Executable}, args : {<<s>> : s \in Strings(MaxLen)},
                    env : {<<>>, <<EnvBinding>>}]
  /\ exec_result = NotCalled

\* The node while another specification runs.
IdleExec ==
  /\ exec_node = [class |-> "SystemExecNode", name |-> "a:test", subject |-> "a.c",
                  runner |-> Executable, args |-> <<>>, env |-> <<>>]
  /\ exec_result = NotCalled
(***************************************************************************)
(* get_included_headers over source trees (SpecHeaders).                   *)
(***************************************************************************)
\* The source file of the node, and the files a tree may hold beside it.
SourcePath == "./a"
HeaderPaths == {"./b", "./x/b", "./y/b", "./y/c"}

\* The folders a script may add with add_include.
IncludeFolders == {"./x", "./y"}

\* The contents a file of the tree may have.
HeaderContents ==
  {<<>>, <<IncludeLine("b")>>, <<IncludeLine("c"), IncludeLine("b")>>,
   <<IncludeLine("a"), IncludeLine("c")>>}

\* self.headers before get_included_headers was called
NotCalculated == <<"NotCalculated">>

\* No call of calc_included_headers is under way.
NotRunning == [running |-> FALSE, st |-> <<>>, pending |-> <<>>]

\* CSourceNode.get_included_headers in a process that starts with an empty
\* cache and fresh handles.
get_included_headers ==
  /\ hd_headers = NotCalculated
  /\ \E r \in {CSourceNode_calc_included_headers(
                  EmptyDict, [p \in DOMAIN hd_lines |-> EmptyDict],
                  [p \in DOMAIN hd_lines |-> NotRead], [p \in DOMAIN hd_lines |-> 1],
                  hd_lines, SourcePath, hd_includes)} :
       /\ hd_headers' = r.headers
       /\ hd_scans' = r.scans
       /\ hd_resolves' = r.resolves
  /\ UNCHANGED <<hd_lines, hd_includes, hd_work>>
  /\ UNCHANGED <<settingsVars, cacheVars, graphVars, shellVars, depVars, execVars, flagVars, scanVars, flatVars, libVars, nameVars>>

\* The developer writes the files of the tree and the script adds the
\* include folders, before the headers are asked for.
write_tree ==
  /\ hd_lines = EmptyDict
  /\ hd_headers = NotCalculated
  /\ ~hd_work.running
  /\ \E tree \in (SUBSET ({SourcePath} \cup HeaderPaths)) \ {{}} :
       hd_lines' \in [tree -> HeaderContents]
  /\ hd_includes' \in SUBSET IncludeFolders
  /\ UNCHANGED <<hd_headers, hd_scans, hd_resolves, hd_work>>
  /\ UNCHANGED <<settingsVars, cacheVars, graphVars, shellVars, depVars, execVars, flagVars, scanVars, flatVars, libVars, nameVars>>

\* get_included_headers calls calc_included_headers, which starts to scan
\* the source file, in a process with an empty cache and fresh handles.
calc_start ==
  /\ hd_headers = NotCalculated
  /\ ~hd_work.running
  /\ \E b \in {calc_included_headers_start(
                  EmptyDict, [p \in DOMAIN hd_lines |-> EmptyDict],
                  [p \in DOMAIN hd_lines |-> NotRead], [p \in DOMAIN hd_lines |-> 1],
                  hd_lines, SourcePath)} :
       /\ hd_work' = [running |-> TRUE, st |-> b.st, pending |-> b.pending]
       /\ hd_scans' = b.st.scans
       /\ hd_resolves' = b.st.resolves
  /\ UNCHANGED <<hd_lines, hd_includes, hd_headers>>
  /\ UNCHANGED <<settingsVars, cacheVars, graphVars, shellVars, depVars, execVars, flagVars, scanVars, flatVars, libVars, nameVars>>

\* The call under way makes its next resolve_include call.
resolve_include ==
  /\ hd_work.running
  /\ hd_work.pending # <<>>
  /\ \E folders \in {IncludeSearchFolders(SourcePath, hd_includes)},
        mtime \in {[p \in DOMAIN hd_lines |-> 1]} :
       \E n \in {resolve_step(hd_work.st, hd_work.pending, folders, mtime, hd_lines)} :
       /\ hd_work' = [running |-> TRUE, st |-> n.st, pending |-> n.pending]
       /\ hd_scans' = n.st.scans
       /\ hd_resolves' = n.st.resolves
  /\ UNCHANGED <<hd_lines, hd_includes, hd_headers>>
  /\ UNCHANGED <<settingsVars, cacheVars, graphVars, shellVars, depVars, execVars, flagVars, scanVars, flatVars, libVars, nameVars>>

\* The call under way has no name left to resolve and returns.
calc_return ==
  /\ hd_work.running
  /\ hd_work.pending = <<>>
  /\ hd_headers' = sorted(SetToSeq(hd_work.st.headers))
  /\ hd_work' = NotRunning
  /\ UNCHANGED <<hd_lines, hd_includes, hd_scans, hd_resolves>>
  /\ UNCHANGED <<settingsVars, cacheVars, graphVars, shellVars, depVars, execVars, flagVars, scanVars, flatVars, libVars, nameVars>>

\* Any tree, any contents and any local includes.
InitHeaders ==
  /\ \E tree \in SUBSET ({SourcePath} \cup HeaderPaths) : hd_lines \in [tree -> HeaderContents]
  /\ hd_includes \in SUBSET IncludeFolders
  /\ hd_headers = NotCalculated
  /\ hd_scans = <<>>
  /\ hd_resolves = <<>>
  /\ hd_work = NotRunning

\* The source node while another specification runs.
IdleHeaders ==
  /\ hd_lines = EmptyDict
  /\ hd_includes = {}
  /\ hd_headers = NotCalculated
  /\ hd_scans = <<>>
  /\ hd_resolves = <<>>
  /\ hd_work = NotRunning
(***************************************************************************)
(* Commands being synthesized for the object nodes, after the scripts ran. *)
(***************************************************************************)
\* The value the scripts store under cflags.
CflagsValue == PyList(<<"-Wall">>)

\* The command of an object node of the context with Settings s is
\* synthesized.
get_config_flags(s, is_cpp) ==
  /\ ncmds < MaxCommands
  /\ \E r \in {Gcc_get_config_flags(attribs, s, is_cpp)} :
       /\ cfg_flags' = r.flags
       /\ attribs' = r.attribs
  /\ ncmds' = ncmds + 1
  /\ UNCHANGED <<entry_modes, set_error, nsets>>
  /\ UNCHANGED <<cacheVars, graphVars, shellVars, depVars, execVars, headerVars, scanVars, flatVars, libVars, nameVars>>

\* The stores the scripts leave: empty, or cflags stored by one set_* or
\* add_* call with a list.
InitFlagStore ==
  LET empty == [s \in SettingsIds |-> [n \in SettingNames |-> Unbound]]
      none == [s \in SettingsIds |-> [n \in SettingNames |-> <<>>]]
  IN /\ \E s \in {"root", "sub", "dep"}, mode \in {MODE_LOCAL, MODE_STICKY, MODE_PERVASIVE},
          is_additive \in BOOLEAN, r \in Restrictions :
          \E res \in {Settings_set(empty, none, s, "cflags", CflagsValue, mode, is_additive, r)} :
            /\ attribs = res.attribs
            /\ entry_modes = res.modes
     /\ set_error = "none"
     /\ nsets = 1

InitFlags ==
  /\ cfg_flags = NotCalled
  /\ ncmds = 0

IdleFlags == InitFlags
(***************************************************************************)
(* scan_for_include_names over the lines a file may have (SpecScan).       *)
(***************************************************************************)
\* Bound on the number of lines of the file.
MaxLines == 3

\* The lines a file may have: an include directive with or without
\* whitespace before the #, naming a file in double quotes or in angle
\* brackets, or a line of other text.
Lines ==
  [lead : BOOLEAN, form : {"quoted", "angle", "text"}, name : {"a", "b"}]

\* scan_for_include_names was not called
NotScanned == <<"NotScanned">>

\* CSourceNode.scan_for_include_names(handle) on the lines handle.read_lines()
\* returns.
scan_file ==
  /\ sc_names = NotScanned
  /\ sc_names' = scan_for_include_names(sc_lines)
  /\ UNCHANGED sc_lines
  /\ UNCHANGED <<settingsVars, cacheVars, graphVars, shellVars, depVars, execVars, headerVars, flagVars, flatVars, libVars, nameVars>>

\* Any file of up to MaxLines lines.
InitScan ==
  /\ \E n \in 0..MaxLines : sc_lines \in [1..n -> Lines]
  /\ sc_names = NotScanned

\* No file is scanned.
IdleScan ==
  /\ sc_lines = <<>>
  /\ sc_names = NotScanned
(***************************************************************************)
(* The functions exported to the build scripts (Spec).                     *)
(***************************************************************************)
\* Nodespace.add_node: the registries of the nodespaces and of the
\* Environment afterwards.
Nodespace_add_node(spaces, registry, nodespace, full_name, node) ==
  LET prefix == Nodespaces[nodespace].prefix
      global_name == IF prefix = PyNone THEN full_name
                     ELSE Name_prepend(full_name, prefix.v[1])
  IN [nodes |-> [spaces EXCEPT ![nodespace] = DictSet(@, full_name, node)],
      all_nodes |-> DictSet(registry, global_name, node)]

\* Nodespace.get_or_create_node(full_name, Class, context, *args): the node
\* returned, and the instances and the registries afterwards.
Nodespace_get_or_create_node(heap, spaces, registry, ns, full_name, Class, context, source) ==
  IF full_name \in DOMAIN spaces[ns]
  THEN [node |-> spaces[ns][full_name], heap |-> heap, nodes |-> spaces,
        all_nodes |-> registry]
  ELSE LET new_node == NewNode(Class, Name_get_last_part(full_name), context, source)
           id == <<context, new_node.name>>
           added == Nodespace_add_node(spaces, registry, ns, full_name, id)
       IN [node |-> id, heap |-> DictSet(heap, id, new_node), nodes |-> added.nodes,
           all_nodes |-> added.all_nodes]

\* ConfigContext.get_or_create_node(name, Class, *args) in context c
ConfigContext_get_or_create_node(heap, spaces, registry, c, name, Class, source) ==
  LET node_name == Name_append(ConfigContexts[c].full_name, name)
  IN Nodespace_get_or_create_node(heap, spaces, registry, ConfigContexts[c].nodespace,
                                  node_name, Class, c, source)

\* The key of the get_or_create_node call a function makes in context c:
\* the nodespace and the full name.
NodeKey(c, name) ==
  <<ConfigContexts[c].nodespace, Name_append(ConfigContexts[c].full_name, name)>>

\* The history after a get_or_create_node call for key returned node.
Called(history, key, node) ==
  IF key \in DOMAIN history THEN history ELSE DictSet(history, key, node)

\* The number of edges of the given instances.
RECURSIVE CountEdges(_, _)
CountEdges(heap, ids) ==
  IF ids = {} THEN 0
  ELSE LET i == CHOOSE j \in ids : TRUE
       IN Len(heap[i].edges) + CountEdges(heap, ids \ {i})

\* The edges the scripts added: all but those the constructors made.
ScriptEdges(heap) ==
  CountEdges(heap, DOMAIN heap)
    - Cardinality({i \in DOMAIN heap : heap[i].class = "ObjectNode"})

\* The lists of at most n of the nodes made so far.
Members(heap, n) == UNION {[1..k -> DOMAIN heap] : k \in 0..n}

\* A script calls a function that ends in get_or_create_node.
GetOrCreate(c, name, Class, source) ==
  /\ run_pc = "running"
  /\ c \in contexts
  /\ LET r == ConfigContext_get_or_create_node(nodes, nodespace_nodes, all_nodes, c, name,
                                               Class, source)
     IN /\ Cardinality(DOMAIN r.heap) <= MaxNodes
        /\ nodes' = r.heap
        /\ nodespace_nodes' = r.nodes
        /\ all_nodes' = r.all_nodes
        /\ first_node' = Called(first_node, NodeKey(c, name), r.node)
  /\ UNCHANGED contexts
  /\ UNCHANGED <<settingsVars, cacheVars, shellVars, depVars, execVars, headerVars, flagVars, scanVars, flatVars, libVars, nameVars>>

\* ConfigContext.get_group
get_group(c, name) == GetOrCreate(c, name, "GroupNode", NoNode)

\* ConfigContext.get_source_file
get_source_file(c, name) == GetOrCreate(c, name, "FileNode", NoNode)

\* CTools.get_source_file
CTools_get_source_file(c, name) == GetOrCreate(c, name, "CSourceNode", NoNode)

\* CSourceNode.get_object on the instance i
get_object(i) ==
  /\ i \in DOMAIN nodes
  /\ nodes[i].class = "CSourceNode"
  /\ GetOrCreate(nodes[i].context, ObjectNodeName(nodes[i].name), "ObjectNode", i)

\* ConfigContext.add_alias(name, *members): the alias is registered under
\* its basic name too; add_member exists on groups and aliases only, so with
\* members and another node under the name the script ends in an
\* AttributeError.
add_alias(c, name, members) ==
  /\ run_pc = "running"
  /\ c \in contexts
  /\ ScriptEdges(nodes) + Len(members) <= MaxEdges
  /\ LET r == ConfigContext_get_or_create_node(nodes, nodespace_nodes, all_nodes, c, name,
                                               "AliasNode", NoNode)
         basic_name == <<name>>
         added == Nodespace_add_node(r.nodes, r.all_nodes, ConfigContexts[c].nodespace,
                                     basic_name, r.node)
         fails == ~IsGroupNode(r.heap[r.node]) /\ members # <<>>
     IN /\ Cardinality(DOMAIN r.heap) <= MaxNodes
        /\ nodes' = IF fails THEN r.heap
                    ELSE [r.heap EXCEPT ![r.node].edges =
                            @ \o [k \in 1..Len(members) |-> Edge(members[k], EmptyDict)]]
        /\ nodespace_nodes' = added.nodes
        /\ all_nodes' = added.all_nodes
        /\ first_node' = Called(first_node, NodeKey(c, name), r.node)
        /\ run_pc' = IF fails THEN "failed" ELSE run_pc
  /\ UNCHANGED contexts
  /\ UNCHANGED <<fs_mtime, fs_lines, attrib_cache, file_attribs, file_lines, returned,
                 makefile, nruns, ntouches>>
  /\ UNCHANGED <<settingsVars, shellVars, depVars, execVars, headerVars, flagVars, scanVars, flatVars, libVars, nameVars>>

\* The nodes the scripts add dependencies to: those that are built or
\* flattened (the edges of a source file are never read).
Dependents(heap) == {i \in DOMAIN heap : heap[i].class \notin {"FileNode", "CSourceNode"}}

\* Node.add_dependency(target, **annots) on the instance i
add_dependency(i, target, annots) ==
  /\ run_pc = "running"
  /\ i \in DOMAIN nodes /\ target \in DOMAIN nodes
  /\ ScriptEdges(nodes) < MaxEdges
  /\ nodes' = [nodes EXCEPT ![i].edges = Append(@, Edge(target, annots))]
  /\ UNCHANGED <<contexts, nodespace_nodes, all_nodes, first_node>>
  /\ UNCHANGED <<settingsVars, cacheVars, shellVars, depVars, execVars, headerVars, flagVars, scanVars, flatVars, libVars, nameVars>>

\* GroupNode.add_member(node) on the instance i
add_member(i, node) ==
  /\ i \in DOMAIN nodes
  /\ IsGroupNode(nodes[i])
  /\ add_dependency(i, node, EmptyDict)

\* ConfigContext.include of the script of a folder: its context is made and
\* its script runs.
include(c) ==
  /\ run_pc = "running"
  /\ "root" \in contexts
  /\ ConfigContexts[c].nodespace = "root" /\ c # "root"
  /\ contexts' = contexts \cup {c}
  /\ UNCHANGED <<nodes, nodespace_nodes, all_nodes, first_node>>
  /\ UNCHANGED <<settingsVars, cacheVars, shellVars, depVars, execVars, headerVars, flagVars, scanVars, flatVars, libVars, nameVars>>

\* MkMkMakefile.run before the root script's first statement.
InitGraph ==
  /\ contexts = {"root"}
  /\ nodes = EmptyDict
  /\ nodespace_nodes = [n \in DOMAIN Nodespaces |-> EmptyDict]
  /\ all_nodes = EmptyDict
  /\ first_node = EmptyDict

\* The source tree of the runs of Spec: a.c-like files that include each
\* other and themselves.
InitTree ==
  /\ InitCache
  /\ fs_lines = [f \in Files |-> <<IncludeLine("b"), IncludeLine("a")>>]

(***************************************************************************)
(* include_dep and the scripts of the deps (SpecDeps).  A folder is a list *)
(* of path parts here.                                                     *)
(***************************************************************************)
\* The most include_dep calls the scripts make.
MaxDepCalls == 3

\* Environment.get_dep(name): the Nodespace, or PyNone
Environment_get_dep(deps, name) == IF name \in DOMAIN deps THEN deps[name] ELSE PyNone

\* Nodespace(env, prefix, root, bindir)
Nodespace(prefix, root, bindir) == [prefix |-> prefix, root |-> root, bindir |-> bindir]

\* Environment.create_dep(name, root, bindir)
Environment_create_dep(deps, name, root, bindir) ==
  DictSet(deps, name, Nodespace(PyStr(name), root, bindir))

\* include_dep that does not look for the dep among the registered ones.
ConfigContext_include_dep_NoLookup(deps, home, bindir, dep_name) ==
  [loads |-> TRUE,
   deps |-> Environment_create_dep(deps, dep_name, home \o <<"deps", dep_name>>,
                                   bindir \o <<"deps", dep_name>>)]

\* ConfigContext.include_dep(dep_name, script) up to subcontext.load: the
\* deps of the Environment afterwards, and whether the script is loaded.
ConfigContext_include_dep(deps, home, bindir, dep_name) ==
  IF Environment_get_dep(deps, dep_name) # PyNone
  THEN [loads |-> FALSE, deps |-> deps]
  ELSE [loads |-> TRUE,
        deps |-> Environment_create_dep(deps, dep_name, home \o <<"deps", dep_name>>,
                                        bindir \o <<"deps", dep_name>>)]

\* self.home and self.nodespace.bindir of the context whose script runs.
HomeOf(deps, c) == IF c = "root" THEN <<".">> ELSE deps[c].root
BindirOf(deps, c) == IF c = "root" THEN <<"out">> ELSE deps[c].bindir

\* The context whose script is running.
Running(stack) == stack[Len(stack)]

NoCall == [dep |-> "", existing |-> FALSE]

\* The running script calls include_dep(d, "d.mkmk"); a dep that is loaded
\* starts to run.
include_dep(d) ==
  /\ load_stack # <<>>
  /\ ndepcalls < MaxDepCalls
  /\ \E r \in {ConfigContext_include_dep(env_deps, HomeOf(env_deps, Running(load_stack)),
                                         BindirOf(env_deps, Running(load_stack)), d)} :
       /\ env_deps' = r.deps
       /\ load_stack' = IF r.loads THEN Append(load_stack, d) ELSE load_stack
       /\ contexts' = IF r.loads THEN contexts \cup {d} ELSE contexts
       /\ dep_history' = IF r.loads
                         THEN [dep_history EXCEPT ![d] = [spaces |-> @.spaces + 1,
                                                          loads |-> @.loads + 1]]
                         ELSE dep_history
  /\ dep_call' = [dep |-> d, existing |-> d \in DOMAIN env_deps]
  /\ ndepcalls' = ndepcalls + 1
  /\ UNCHANGED <<nodes, nodespace_nodes, all_nodes, first_node>>
  /\ UNCHANGED <<settingsVars, cacheVars, shellVars, execVars, headerVars, flagVars, scanVars, flatVars, libVars, nameVars>>

\* The running script calls get_group(name).
script_get_group(name) ==
  /\ load_stack # <<>>
  /\ get_group(Running(load_stack), name)

\* The running script ends: exec returns to the script that included it.
end_script ==
  /\ load_stack # <<>>
  /\ load_stack' = SubSeq(load_stack, 1, Len(load_stack) - 1)
  /\ UNCHANGED <<env_deps, dep_history, dep_call, ndepcalls>>
  /\ UNCHANGED <<settingsVars, cacheVars, graphVars, shellVars, execVars, headerVars, flagVars, scanVars, flatVars, libVars, nameVars>>

\* MkMkMakefile.run: no deps, and the root script starts to run.
InitDeps ==
  /\ env_deps = EmptyDict
  /\ load_stack = <<"root">>
  /\ dep_history = [d \in Deps |-> [spaces |-> 0, loads |-> 0]]
  /\ dep_call = NoCall
  /\ ndepcalls = 0

\* The deps while another specification runs.
IdleDeps ==
  /\ env_deps = EmptyDict
  /\ load_stack = <<>>
  /\ dep_history = [d \in Deps |-> [spaces |-> 0, loads |-> 0]]
  /\ dep_call = NoCall
  /\ ndepcalls = 0
(***************************************************************************)
(* Flattening of groups: add_dependency and get_input_nodes (SpecFlat).    *)
(***************************************************************************)
\* Bound on the edges the scripts add to the graph that is flattened.
MaxFlatEdges == 4

\* The annotations of edges and the queries of get_input_nodes.
Annotations == {EmptyDict, [src |-> TRUE]}

\* get_input_nodes was not called
NotAsked == [node |-> NoNode, annots |-> EmptyDict, nodes |-> PyNone]

\* The nodes the root script made: a C source file with its object, a
\* plain file, a group and an alias.
GraphNodes ==
  LET made == {NewNode("CSourceNode", "a", "root", NoNode),
               NewNode("ObjectNode", "a:object", "root", <<"root", "a">>),
               NewNode("FileNode", "b", "root", NoNode),
               NewNode("GroupNode", "g", "root", NoNode),
               NewNode("AliasNode", "h", "root", NoNode)}
  IN [i \in {<<n.context, n.name>> : n \in made} |->
        CHOOSE n \in made : <<n.context, n.name>> = i]

\* Node.add_dependency(target, **annots) / GroupNode.add_member(node) on the
\* instance i of the graph.
add_edge(i, target, annots) ==
  /\ fl_inputs = NotAsked
  /\ i \in Dependents(fl_nodes) /\ target \in DOMAIN fl_nodes
  /\ IsGroupNode(fl_nodes[i]) => annots = EmptyDict
  /\ ScriptEdges(fl_nodes) < MaxFlatEdges
  /\ fl_nodes' = [fl_nodes EXCEPT ![i].edges = Append(@, Edge(target, annots))]
  /\ UNCHANGED fl_inputs
  /\ UNCHANGED <<settingsVars, cacheVars, graphVars, shellVars, depVars, execVars, headerVars, flagVars, scanVars, libVars, nameVars>>

\* Node.get_input_nodes(**annots) on the instance i
get_input_nodes(i, annots) ==
  /\ fl_inputs = NotAsked
  /\ i \in Dependents(fl_nodes)
  /\ fl_inputs' = [node |-> i, annots |-> annots,
                   nodes |-> Node_get_input_nodes(fl_nodes, i, annots)]
  /\ UNCHANGED fl_nodes
  /\ UNCHANGED <<settingsVars, cacheVars, graphVars, shellVars, depVars, execVars, headerVars, flagVars, scanVars, libVars, nameVars>>

\* The nodes are made and no edge is added by a script.
InitFlat ==
  /\ fl_nodes = GraphNodes
  /\ fl_inputs = NotAsked

\* No graph is flattened.
IdleFlat ==
  /\ fl_nodes = EmptyDict
  /\ fl_inputs = NotAsked
(***************************************************************************)
(* add_library calls of the scripts (SpecLibs).                            *)
(***************************************************************************)
\* Bound on the add_library calls of a behaviour.
MaxLibCalls == 3

\* The object nodes the scripts made.
Objects == {"a:object", "b:object"}

\* What pkg-config may print.
PkgConfigOutputs ==
  {<<>>,
   <<Word("-I", "/usr/include/glib"), Word("-l", "glib")>>,
   <<Word("-p", "thread"), Word("-I", "/usr/include/glib"), Word("-I", "/usr/lib/glib"),
     Word("-l", "glib"), Word("-l", "m")>>}

\* The return codes of pkg-config.
ReturnCodes == {0, 1}

\* obj.add_library(lib) in a script; pkg-config, when it is run, ends with
\* any return code and output.
add_library(obj, lib) ==
  /\ lib_pc = "running"
  /\ Len(lib_calls) < MaxLibCalls
  /\ \E returncode \in ReturnCodes, flags \in PkgConfigOutputs :
       \E r \in {ObjectNode_add_library(library_info[lib], system_includes[obj],
                                        libraries[obj], returncode, flags)} :
         /\ library_info' = [library_info EXCEPT ![lib] = r.instance]
         /\ system_includes' = [system_includes EXCEPT ![obj] = r.system_includes]
         /\ libraries' = [libraries EXCEPT ![obj] = r.libraries]
         /\ pkg_runs' = IF r.ran THEN pkg_runs + 1 ELSE pkg_runs
         /\ lib_calls' = Append(lib_calls,
                                [obj |-> obj, lib |-> lib, ran |-> r.ran,
                                 returned |-> ~(r.exit \/ r.error),
                                 includes |-> r.added_includes, libs |-> r.added_libs])
         /\ lib_pc' = IF r.exit THEN "exited" ELSE IF r.error THEN "failed" ELSE lib_pc
  /\ UNCHANGED <<settingsVars, cacheVars, graphVars, shellVars, depVars, execVars, headerVars, flagVars, scanVars, flatVars, nameVars>>

\* The root script declared glib as resolved through pkg-config and m with
\* its paths: get_library_info(name).add_platform("posix", ...).
InitLibs ==
  /\ library_info = [glib |-> LibraryInstance(PyNone, PyNone, PyStr("glib")),
                     m |-> LibraryInstance(PyList(<<"/usr/include">>), PyList(<<"m">>), PyNone)]
  /\ system_includes = [o \in Objects |-> {}]
  /\ libraries = [o \in Objects |-> {}]
  /\ lib_calls = <<>>
  /\ pkg_runs = 0
  /\ lib_pc = "running"

\* No script declares or adds a library.
IdleLibs ==
  /\ library_info = EmptyDict
  /\ system_includes = EmptyDict
  /\ libraries = EmptyDict
  /\ lib_calls = <<>>
  /\ pkg_runs = 0
  /\ lib_pc = "running"
(***************************************************************************)
(* Nodes of every class made by the scripts (SpecNames).                   *)
(***************************************************************************)
\* Bound on the nodes a behaviour makes.
MaxCreated == 2

\* The names the scripts pass.
CreatedNames == {"a", "b"}

\* The full names the nodes are made under.
CreatedFullNames ==
  {Name_append(ConfigContexts[c].full_name, name) : c \in DOMAIN ConfigContexts,
                                                    name \in CreatedNames}

\* ConfigContext.get_or_create_node(name, Class, *args) in context c, as the
\* functions exported to the scripts call it.
create_node(c, name, Class) ==
  /\ Cardinality({key \in (DOMAIN nm_nodes) \X CreatedFullNames : key[2] \in DOMAIN nm_nodes[key[1]]})
       < MaxCreated
  /\ nm_nodes' = [nm_nodes EXCEPT ![ConfigContexts[c].nodespace] =
                    Nodespace_create_named(@, Name_append(ConfigContexts[c].full_name, name),
                                           Class, c)]
  /\ UNCHANGED <<settingsVars, cacheVars, graphVars, shellVars, depVars, execVars, headerVars, flagVars, scanVars, flatVars, libVars>>

\* The nodespaces are made and hold no node.
InitNames == nm_nodes = [ns \in DOMAIN Nodespaces |-> EmptyDict]

\* No node is made.
IdleNames == nm_nodes = EmptyDict
(***************************************************************************)
(* The specifications.                                                     *)
(***************************************************************************)
\* A settings tree being filled by the scripts; no generator output.
InitSpecSettings ==
  InitSettings /\ IdleCache /\ InitGraph /\ IdleShell
    /\ IdleDeps /\ IdleExec /\ IdleHeaders /\ IdleFlags /\ IdleScan /\ IdleFlat /\ IdleLibs /\ IdleNames

NextSettings ==
  \E s \in SettingsIds, name \in SettingNames, r \in Restrictions :
    \/ set_local(s, name, r)
    \/ set_sticky(s, name, r)
    \/ set_pervasive(s, name, r)
    \/ add_local(s, name, r)
    \/ add_sticky(s, name, r)
    \/ add_pervasive(s, name, r)

SpecSettings == InitSpecSettings /\ [][NextSettings]_vars

\* Generator processes that follow each other over files that change.
InitSpecCache ==
  InitSettings /\ InitCache /\ InitGraph /\ IdleShell
    /\ IdleDeps /\ IdleExec /\ IdleHeaders /\ IdleFlags /\ IdleScan /\ IdleFlat /\ IdleLibs /\ IdleNames

NextCache ==
  \/ StartRun
  \/ \E order \in Orders(DOMAIN all_nodes) : write_makefile(order)
  \/ \E f \in Files : GetIncludeNames(f)
  \/ \E f \in Files, mtime \in Mtimes, lines \in Contents : TouchFile(f, mtime, lines)

SpecCache == InitSpecCache /\ [][NextCache]_vars

\* One generator process: the scripts build the graph, then it is written.
Init ==
  InitSettings /\ InitTree /\ InitGraph /\ IdleShell
    /\ IdleDeps /\ IdleExec /\ IdleHeaders /\ IdleFlags /\ IdleScan /\ IdleFlat /\ IdleLibs /\ IdleNames

Next ==
  \/ \E c \in DOMAIN ConfigContexts, name \in NodeNames :
       \/ get_group(c, name)
       \/ get_source_file(c, name)
       \/ CTools_get_source_file(c, name)
       \/ \E members \in Members(nodes, MaxEdges) : add_alias(c, name, members)
  \/ \E i \in DOMAIN nodes : get_object(i)
  \/ \E i \in Dependents(nodes), target \in DOMAIN nodes :
       \/ add_member(i, target)
       \/ add_dependency(i, target, EmptyDict)
  \/ \E c \in DOMAIN ConfigContexts : include(c)
  \/ \E order \in Orders(DOMAIN all_nodes) : write_makefile(order)

Spec == Init /\ [][Next]_vars

\* A command is built for a platform and make runs its recipe.
InitSpecShell ==
  InitSettings /\ IdleCache /\ InitGraph /\ InitShell
    /\ IdleDeps /\ IdleExec /\ IdleHeaders /\ IdleFlags /\ IdleScan /\ IdleFlat /\ IdleLibs /\ IdleNames

NextShell ==
  \/ build
  \/ make_line

SpecShell == InitSpecShell /\ [][NextShell]_vars

\* The root script and the scripts of the deps include deps and make groups.
InitSpecDeps ==
  InitSettings /\ IdleCache /\ InitGraph /\ IdleShell
    /\ InitDeps /\ IdleExec /\ IdleHeaders /\ IdleFlags /\ IdleScan /\ IdleFlat /\ IdleLibs /\ IdleNames

NextDeps ==
  \/ \E d \in Deps : include_dep(d)
  \/ \E name \in NodeNames : script_get_group(name)
  \/ end_script

SpecDeps == InitSpecDeps /\ [][NextDeps]_vars

\* The command line of a custom-exec node is asked for.
InitSpecExec ==
  InitSettings /\ IdleCache /\ InitGraph /\ IdleShell
    /\ IdleDeps /\ InitExec /\ IdleHeaders /\ IdleFlags /\ IdleScan /\ IdleFlat /\ IdleLibs /\ IdleNames

NextExec == get_command_line

SpecExec == InitSpecExec /\ [][NextExec]_vars

\* The headers of a source node are asked for.
InitSpecHeaders ==
  InitSettings /\ IdleCache /\ InitGraph /\ IdleShell
    /\ IdleDeps /\ IdleExec /\ InitHeaders /\ IdleFlags /\ IdleScan /\ IdleFlat /\ IdleLibs /\ IdleNames

NextHeaders == get_included_headers

SpecHeaders == InitSpecHeaders /\ [][NextHeaders]_vars

\* A tree is written and the headers of its source node are asked for; the
\* call is followed through its resolve_include calls.  The process runs
\* the call as long as it has a step to make.
InitSpecTree ==
  InitSettings /\ IdleCache /\ InitGraph /\ IdleShell
    /\ IdleDeps /\ IdleExec /\ IdleHeaders /\ IdleFlags /\ IdleScan /\ IdleFlat /\ IdleLibs /\ IdleNames

NextTree ==
  \/ write_tree
  \/ calc_start
  \/ resolve_include
  \/ calc_return

FairSpecHeaders ==
  InitSpecTree /\ [][NextTree]_vars /\ WF_vars(calc_start \/ resolve_include \/ calc_return)

\* The scripts have run; the commands of the nodes are synthesized.
InitSpecFlags ==
  InitFlagStore /\ IdleCache /\ InitGraph /\ IdleShell
    /\ IdleDeps /\ IdleExec /\ IdleHeaders /\ InitFlags /\ IdleScan /\ IdleFlat /\ IdleLibs /\ IdleNames

NextFlags ==
  \E s \in {"root", "sub", "dep"}, is_cpp \in {"None", "True", "False"} :
    get_config_flags(s, is_cpp)

SpecFlags == InitSpecFlags /\ [][NextFlags]_vars

\* The include names of a file are scanned for.
InitSpecScan ==
  InitSettings /\ IdleCache /\ InitGraph /\ IdleShell
    /\ IdleDeps /\ IdleExec /\ IdleHeaders /\ IdleFlags /\ InitScan /\ IdleFlat /\ IdleLibs /\ IdleNames

NextScan == scan_file

SpecScan == InitSpecScan /\ [][NextScan]_vars

\* Edges are added to a graph of groups and its nodes' inputs are asked for.
InitSpecFlat ==
  InitSettings /\ IdleCache /\ InitGraph /\ IdleShell
    /\ IdleDeps /\ IdleExec /\ IdleHeaders /\ IdleFlags /\ IdleScan /\ InitFlat /\ IdleLibs /\ IdleNames

NextFlat ==
  \/ \E i, target \in DOMAIN GraphNodes, annots \in Annotations : add_edge(i, target, annots)
  \/ \E i \in DOMAIN GraphNodes, annots \in Annotations : get_input_nodes(i, annots)

SpecFlat == InitSpecFlat /\ [][NextFlat]_vars

\* Scripts add libraries to objects.
InitSpecLibs ==
  InitSettings /\ IdleCache /\ InitGraph /\ IdleShell
    /\ IdleDeps /\ IdleExec /\ IdleHeaders /\ IdleFlags /\ IdleScan /\ IdleFlat /\ InitLibs /\ IdleNames

NextLibs == \E obj \in Objects, lib \in {"glib", "m"} : add_library(obj, lib)

SpecLibs == InitSpecLibs /\ [][NextLibs]_vars

\* Scripts make nodes of every class in every context.
InitSpecNames ==
  InitSettings /\ IdleCache /\ InitGraph /\ IdleShell
    /\ IdleDeps /\ IdleExec /\ IdleHeaders /\ IdleFlags /\ IdleScan /\ IdleFlat /\ IdleLibs
    /\ InitNames

NextNames ==
  \E c \in DOMAIN ConfigContexts, name \in CreatedNames, Class \in CreatedClasses :
    create_node(c, name, Class)

SpecNames == InitSpecNames /\ [][NextNames]_vars
(***************************************************************************)
(* Properties of the Settings store.                                       *)
(***************************************************************************)
\* The chain s, s.parent, s.parent.parent, ...
RECURSIVE Chain(_)
Chain(s) == IF s = NoSettings THEN <<>> ELSE <<s>> \o Chain(SettingsParent(s))

\* The i-th Settings of the chain of a query answers for the name: it binds
\* it, and beyond the Settings the query was issued on only sticky bindings count.
Visible(st, c, i, name) ==
  st[c[i]][name].bound /\ (i = 1 \/ st[c[i]][name].is_sticky)

\* The elements of the list values of the entries whose restrictions are
\* active in the context, in insertion order.
RECURSIVE FlatActive(_, _)
FlatActive(values, context) ==
  IF values = <<>> THEN <<>>
  ELSE (IF Setting_is_active(Head(values).restrictions, context)
        THEN Head(values).value.v ELSE <<>>) \o FlatActive(Tail(values), context)

RECURSIVE ChainValuesFrom(_, _, _, _, _)
ChainValuesFrom(st, c, i, name, context) ==
  IF i > Len(c) THEN <<>>
  ELSE (IF Visible(st, c, i, name) THEN FlatActive(st[c[i]][name].values, context)
        ELSE <<>>) \o ChainValuesFrom(st, c, i + 1, name, context)

\* The name is bound on the chain of s, and additive wherever the query sees it.
AdditiveAlong(st, s, name) ==
  LET c == Chain(s)
  IN /\ \E i \in 1..Len(c) : Visible(st, c, i, name)
     /\ \A i \in 1..Len(c) : Visible(st, c, i, name) => st[c[i]][name].is_additive

\* The last Settings of the chain has an entry the query sees and that is
\* active in the context, so the caller's default is not consulted.
TopMatches(st, s, name, context) ==
  LET c == Chain(s)
  IN /\ Visible(st, c, Len(c), name)
     /\ Matches(st[c[Len(c)]][name].values, context) # <<>>

IsDescendant(d, p) == \E i \in 2..Len(Chain(d)) : Chain(d)[i] = p

EveryTagPresentAndEqual(restriction, context) ==
  \A tag \in DOMAIN restriction : tag \in DOMAIN context /\ context[tag] = restriction[tag]

\* Every tag of the restriction that the context has, has the same value there.
CommonTagsEqual(restriction, context) ==
  \A tag \in (DOMAIN restriction) \cap (DOMAIN context) : context[tag] = restriction[tag]

\* The values get takes from a Setting are those of the entries that satisfy Test.
ValuesWhere(values, context, Test(_, _)) ==
  LET chosen == SelectSeq(values, LAMBDA e : Test(e.restrictions, context))
  IN [i \in 1..Len(chosen) |-> chosen[i].value]

\* C6 as stated: an entry matches a query context exactly when every tag of
\* its restriction is present in the context with the same value; a tag the
\* context lacks disqualifies the entry.
C6_MissingTagDisqualifies ==
  \A s \in SettingsIds, name \in SettingNames, context \in QueryContexts :
    Matches(attribs[s][name].values, context)
      = ValuesWhere(attribs[s][name].values, context, EveryTagPresentAndEqual)

\* C6 amended: an entry matches exactly when every tag of its restriction
\* that the context contains has the same value there; a restriction tag the
\* context does not contain does not keep the entry from matching.
C6_MatchesOnCommonTags ==
  \A s \in SettingsIds, name \in SettingNames, context \in QueryContexts :
    /\ Matches(attribs[s][name].values, context)
         = ValuesWhere(attribs[s][name].values, context, CommonTagsEqual)
    /\ (attribs[s][name].bound /\ ~attribs[s][name].is_additive
          /\ Len(attribs[s][name].values) = 1 /\ SettingsParent(s) = NoSettings) =>
         Settings_get(attribs, s, name, context, PyNone, FALSE)
           = IF CommonTagsEqual(attribs[s][name].values[1].restrictions, context)
             THEN attribs[s][name].values[1].value ELSE PyNone

\* An entry restricted to language "c" is stored and is returned for the
\* link context, which has no language tag, and not for a "c++" context.
C6_Witness ==
  LET e == attribs["env"]["cflags"]
  IN /\ e.bound /\ ~e.is_additive /\ Len(e.values) = 1
     /\ e.values[1].restrictions = [language |-> "c"]
     /\ Settings_get(attribs, "env", "cflags", [toolchain |-> "gcc"], PyNone, FALSE)
          = e.values[1].value
     /\ Settings_get(attribs, "env", "cflags", [toolchain |-> "gcc", language |-> "c++"],
                     PyNone, FALSE) = PyNone

\* C7: a call that adds an entry under a name its target Settings binds with
\* another is_sticky or is_additive fails with an assertion error and leaves
\* the store as it was; so every entry stored under a name was added with
\* the flags of the name's Setting.
C7_NoConflictingFlags ==
  /\ \A s \in SettingsIds, name \in SettingNames, r \in Restrictions,
        mode \in {MODE_LOCAL, MODE_STICKY, MODE_PERVASIVE}, is_additive \in BOOLEAN :
       LET t == SetTarget(s, mode)
           res == Settings_set(attribs, entry_modes, s, name, PyStr(Flag(s, name, mode)), mode,
                                is_additive, r)
       IN (t # NoSettings /\ attribs[t][name].bound
             /\ (attribs[t][name].is_additive # is_additive
                   \/ attribs[t][name].is_sticky # (mode # MODE_LOCAL)))
          => res.error = "AssertionError" /\ res.attribs = attribs
  /\ \A s \in SettingsIds, name \in SettingNames :
       /\ Len(entry_modes[s][name]) = Len(attribs[s][name].values)
       /\ \A i \in 1..Len(entry_modes[s][name]) :
            entry_modes[s][name][i]
              = <<attribs[s][name].is_sticky, attribs[s][name].is_additive>>
  /\ set_error = "AssertionError" => nsets > 0

\* A call was refused with an assertion error while the store holds entries.
C7_Witness ==
  /\ set_error = "AssertionError"
  /\ \E s \in SettingsIds, name \in SettingNames : Len(attribs[s][name].values) = 2


\* The positions of the pervasive Settings on the chain of s.
PervasiveOn(s) == {i \in 1..Len(Chain(s)) : SettingsIsPervasive(Chain(s)[i])}

\* The nearest pervasive Settings on the chain s, s.parent, ..., if any.
NearestPervasive(s) ==
  IF PervasiveOn(s) = {} THEN NoSettings
  ELSE Chain(s)[CHOOSE i \in PervasiveOn(s) : \A j \in PervasiveOn(s) : i <= j]

\* The outcome of a pervasive call on s in the current store.
PervasiveCall(s, name, is_additive, r) ==
  Settings_set(attribs, entry_modes, s, name,
               IF is_additive THEN PyList(<<Flag(s, name, MODE_PERVASIVE)>>)
               ELSE PyStr(Flag(s, name, MODE_PERVASIVE)),
               MODE_PERVASIVE, is_additive, r)

\* What a pervasive call on any Settings would do to the current store.
PervasiveStoredAtNearest ==
  \A s \in SettingsIds, name \in SettingNames, r \in Restrictions, is_additive \in BOOLEAN :
    LET t == NearestPervasive(s)
        res == PervasiveCall(s, name, is_additive, r)
        old == attribs[t][name]
    IN /\ \A u \in SettingsIds \ {t} : res.attribs[u] = attribs[u]
       /\ IF t = NoSettings
          THEN res.error = "AttributeError" /\ res.attribs = attribs
          ELSE (old.bound => old.is_sticky /\ old.is_additive = is_additive) =>
                 /\ res.error = "none"
                 /\ res.attribs[t][name].is_sticky
                 /\ res.attribs[t][name].is_additive = is_additive
                 /\ Len(res.attribs[t][name].values) = Len(old.values) + 1
                 /\ SubSeq(res.attribs[t][name].values, 1, Len(old.values)) = old.values
                 /\ res.attribs[t][name].values[Len(old.values) + 1].restrictions = r

\* A call changes the entries of at most one Settings, and a call that fails
\* for want of a Settings to forward to changes none.
OneSettingsPerCall ==
  /\ Cardinality({u \in SettingsIds : attribs'[u] # attribs[u]}) <= 1
  /\ set_error' = "AttributeError" => attribs' = attribs

\* C19: a set_pervasive or add_pervasive call on a Settings S stores the
\* entry in the nearest Settings of the chain S, S.parent, ... that is
\* pervasive (as a sticky entry, after the entries it has, unless the name is
\* bound there with other flags) and changes no other Settings; when no
\* Settings of the chain is pervasive the call fails and changes nothing.
C19_PervasiveBubbles == []PervasiveStoredAtNearest /\ [][OneSettingsPerCall]_vars

\* The call add_pervasive on the Settings of the included script would put
\* its entry two Settings up, in the environment's, which holds one such
\* entry already; and a pervasive call on the Settings without a parent has
\* just failed.
C19_Witness ==
  LET e == attribs["env"]["cflags"]
      res == PervasiveCall("sub", "cflags", TRUE, EmptyDict)
  IN /\ e.bound /\ e.is_sticky /\ e.is_additive /\ Len(e.values) = 1
     /\ ~attribs["root"]["cflags"].bound /\ ~attribs["sub"]["cflags"].bound
     /\ ~attribs["loose"]["cflags"].bound
     /\ set_error = "AttributeError"
     /\ Len(res.attribs["env"]["cflags"].values) = 2
     /\ res.attribs["sub"] = attribs["sub"] /\ res.attribs["root"] = attribs["root"]

\* C20: when a Settings that has a parent binds an additive name and none
\* of its entries is active in the query context, get returns exactly the
\* parent's resolution of the name (sticky bindings only), for every default
\* the caller passes, None included, also when no ancestor binds the name.
C20_NoMatchYieldsParent ==
  \A s \in SettingsIds, name \in SettingNames, context \in QueryContexts, d \in Defaults :
    (SettingsParent(s) # NoSettings
       /\ attribs[s][name].bound /\ attribs[s][name].is_additive
       /\ Matches(attribs[s][name].values, context) = <<>>)
    => Settings_get(attribs, s, name, context, d, FALSE)
         = Settings_get(attribs, SettingsParent(s), name, context, d, TRUE)

\* The first Settings of the chain of s whose binding the query sees, as a
\* position of the chain; 0 if there is none.
FirstVisible(st, s, name) ==
  LET c == Chain(s)
      seen == {i \in 1..Len(c) : Visible(st, c, i, name)}
  IN IF seen = {} THEN 0 ELSE CHOOSE i \in seen : \A j \in seen : i <= j

\* C28: a Settings that binds a non-additive name shadows its ancestors:
\* when its binding is the one the query sees first, get returns the
\* caller's default if no entry is active in the context (whatever the
\* ancestors hold), the value of the entry if exactly one is, and fails
\* with an assertion error if more than one is.
C28_NonAdditiveShadows ==
  \A s \in SettingsIds, name \in SettingNames, context \in QueryContexts, d \in Defaults :
    LET i == FirstVisible(attribs, s, name)
        binding == attribs[Chain(s)[i]][name]
        active == SelectSeq(binding.values, LAMBDA e : CommonTagsEqual(e.restrictions, context))
        r == Settings_get(attribs, s, name, context, d, FALSE)
    IN (i > 0 /\ ~binding.is_additive) =>
         r = IF Len(active) = 0 THEN d
             ELSE IF Len(active) = 1 THEN active[1].value
             ELSE PyError("AssertionError")

\* The root Settings binds the name with two entries for language "c" and
\* the environment's Settings has an entry active everywhere: a "c++" query
\* on the root gets the default, a "c" query fails.
C28_Witness ==
  LET k == attribs["root"]["cflags"]
      e == attribs["env"]["cflags"]
  IN /\ k.bound /\ ~k.is_additive /\ Len(k.values) = 2
     /\ \A i \in 1..2 : k.values[i].restrictions = [language |-> "c"]
     /\ e.bound /\ e.is_sticky /\ Len(e.values) = 1 /\ e.values[1].restrictions = EmptyDict
     /\ Settings_get(attribs, "root", "cflags", [toolchain |-> "gcc", language |-> "c++"],
                     PyNone, FALSE) = PyNone
     /\ Settings_get(attribs, "root", "cflags", [toolchain |-> "gcc", language |-> "c"],
                     PyNone, FALSE) = PyError("AssertionError")

\* The Settings of the contexts of the root nodespace and of the dep.
RootNodespaceSettings == {"root", "sub"}
DepNodespaceSettings == {"dep"}
ContextSettings == RootNodespaceSettings \cup DepNodespaceSettings

\* No Settings of the chain of k below the pervasive one binds the name.
NoNearerBinding(st, k, name) ==
  \A i \in 1..Len(Chain(k)) :
    (Chain(k)[i] # NearestPervasive(k)) => ~st[Chain(k)[i]][name].bound

\* The store after a successful pervasive call from s serves the value to
\* every context Settings k without a nearer binding, in every context in
\* which the entry is active: as the tail of the list for an additive name,
\* as the result itself when it is the only active entry.
PervasiveSeenEverywhere ==
  \A s \in ContextSettings, name \in SettingNames, r \in Restrictions, is_additive \in BOOLEAN :
    LET res == PervasiveCall(s, name, is_additive, r)
        t == NearestPervasive(s)
        entries == res.attribs[t][name].values
        stored == entries[Len(entries)]
    IN res.error = "none" =>
         \A k \in ContextSettings, context \in QueryContexts, d \in Defaults :
           (NoNearerBinding(res.attribs, k, name)
              /\ CommonTagsEqual(stored.restrictions, context)) =>
             LET got == Settings_get(res.attribs, k, name, context, d, FALSE)
             IN IF is_additive
                THEN /\ got.t = "list" /\ Len(got.v) >= 1
                     /\ got.v[Len(got.v)] = stored.value.v[1]
                ELSE Len(Matches(entries, context)) = 1 => got = stored.value

\* What a get on a Settings of the dep returns does not depend on anything
\* stored in the Settings of the root nodespace's contexts.
RootStickyUnseenInDep ==
  \A k \in DepNodespaceSettings, name \in SettingNames, context \in QueryContexts,
     d \in Defaults :
    Settings_get(attribs, k, name, context, d, FALSE)
      = Settings_get([u \in SettingsIds |->
                        IF u \in RootNodespaceSettings
                        THEN [n \in SettingNames |-> Unbound] ELSE attribs[u]],
                     k, name, context, d, FALSE)

\* C30: the root context and the top context of a dep have the same
\* pervasive Settings at the end of their chains; a value stored with
\* set_pervasive or add_pervasive from any context is returned by get in
\* every context without a nearer binding of the name, of the other
\* nodespace too; a sticky value set in a context of the root nodespace is
\* not visible from the dep's contexts.
C30_SharedPervasiveSettings ==
  /\ \A k \in ContextSettings : NearestPervasive(k) = "env"
  /\ PervasiveSeenEverywhere
  /\ RootStickyUnseenInDep

\* The environment's Settings and the root's both hold a sticky entry for
\* every context (the former can only have come from a pervasive call or a
\* call on the environment's Settings itself): the dep gets the
\* environment's value, the included script of the root nodespace the root's.
C30_Witness ==
  LET c == [toolchain |-> "gcc", language |-> "c"]
      e == attribs["env"]["cflags"]
      k == attribs["root"]["cflags"]
  IN /\ e.bound /\ e.is_sticky /\ ~e.is_additive /\ Len(e.values) = 1
     /\ k.bound /\ k.is_sticky /\ ~k.is_additive /\ Len(k.values) = 1
     /\ ~attribs["dep"]["cflags"].bound /\ ~attribs["sub"]["cflags"].bound
     /\ Settings_get(attribs, "dep", "cflags", c, PyNone, FALSE) = e.values[1].value
     /\ Settings_get(attribs, "sub", "cflags", c, PyNone, FALSE) = k.values[1].value
     /\ e.values[1].value # k.values[1].value
(***************************************************************************)
(* Properties of the sticky attribute cache.                               *)
(***************************************************************************)
\* This step is the first get_attribute of the process on the handle of f.
FirstGet(f) ==
  /\ run_pc = "running"
  /\ INCLUDE_NAMES \notin DOMAIN file_attribs[f]
  /\ INCLUDE_NAMES \in DOMAIN file_attribs'[f]

\* C2: the first sticky get_attribute on a handle returns the persisted
\* value without reading the file when the cache has an entry for the path
\* with the file's current mtime that records the attribute; when the stored
\* mtime differs the file is read, the thunk's value is returned and the
\* entry is replaced by one with the current mtime and the new value.
C2_StickyAttributeCaching ==
  [][\A f \in Files :
       (FirstGet(f) /\ f \in DOMAIN attrib_cache) =>
         LET entry == attrib_cache[f]
             stored == DictGet(entry, "mtime", 0)
         IN /\ (stored = fs_mtime[f] /\ INCLUDE_NAMES \in DOMAIN entry) =>
                 /\ returned' = [path |-> f, value |-> entry[INCLUDE_NAMES]]
                 /\ file_lines[f] = NotRead /\ file_lines'[f] = NotRead
                 /\ attrib_cache' = attrib_cache
            /\ stored # fs_mtime[f] =>
                 /\ file_lines'[f] = fs_lines[f]
                 /\ returned' = [path |-> f, value |-> scan_for_include_names(fs_lines[f])]
                 /\ attrib_cache'[f] = DictSet(DictSet(EmptyDict, "mtime", fs_mtime[f]),
                                               INCLUDE_NAMES, returned'.value)
    ]_vars

\* In the second process ./a was answered from the cache without being
\* read although its lines changed, and ./b, whose time changed since the
\* Makefile was written, was read and its entry renewed.
C2_Witness ==
  /\ nruns = 2 /\ run_pc = "running"
  /\ INCLUDE_NAMES \in DOMAIN file_attribs["./a"]
  /\ file_lines["./a"] = NotRead
  /\ file_attribs["./a"][INCLUDE_NAMES] # scan_for_include_names(fs_lines["./a"])
  /\ INCLUDE_NAMES \in DOMAIN file_attribs["./b"]
  /\ file_lines["./b"] # NotRead
  /\ "./b" \in DOMAIN Environment_read_attrib_cache(makefile)
  /\ Environment_read_attrib_cache(makefile)["./b"]["mtime"] # fs_mtime["./b"]
  /\ attrib_cache["./b"]["mtime"] = fs_mtime["./b"]

\* C8: the cache a process loads at startup from the Makefile the previous
\* process wrote equals the cache that process held when it wrote it.
C8_MetaRoundTrip ==
  [][(run_pc = "emitted" /\ run_pc' = "running") => attrib_cache' = attrib_cache]_vars

\* A second process has just started from a Makefile whose META line holds
\* entries for two files.
C8_Witness ==
  /\ nruns = 2 /\ run_pc = "running"
  /\ makefile.meta # <<>>
  /\ DOMAIN attrib_cache = Files
  /\ \A f \in Files : DOMAIN attrib_cache[f] = {"mtime", INCLUDE_NAMES}
  /\ \E f \in Files : Len(attrib_cache[f][INCLUDE_NAMES]) = 2
  /\ \A f \in Files : file_attribs[f] = EmptyDict


\* C16 as stated: every emitted Makefile has exactly one META line, and its
\* JSON is the attribute cache at emission time, also for a cache without
\* entries.
C16_MetaLineAlways ==
  run_pc = "emitted" =>
    /\ Len(makefile.meta) = 1
    /\ json_loads(makefile.meta[1]) = attrib_cache

\* C16: an emitted Makefile has exactly one META line, whose JSON is the
\* attribute cache at emission time, when the cache has entries; it has no
\* META line when the cache has none.
C16_MetaLineUnlessEmpty ==
  run_pc = "emitted" =>
    IF attrib_cache = EmptyDict THEN makefile.meta = <<>>
    ELSE /\ Len(makefile.meta) = 1
         /\ json_loads(makefile.meta[1]) = attrib_cache

\* A Makefile was emitted with a META line for one file, after an earlier
\* run had emitted one without a META line.
C16_Witness ==
  /\ run_pc = "emitted" /\ nruns = 2
  /\ Len(makefile.meta) = 1
  /\ DOMAIN attrib_cache = {"./a"}
  /\ Len(attrib_cache["./a"][INCLUDE_NAMES]) = 2
(***************************************************************************)
(* Properties of the node registries and of the emitted Makefile.          *)
(***************************************************************************)
\* What a get_or_create_node call for the key returns in the current state;
\* the class and the constructor arguments are those of a group.
CallReturns(key) ==
  Nodespace_get_or_create_node(nodes, nodespace_nodes, all_nodes, key[1], key[2],
                               "GroupNode", "root", NoNode).node

\* C1: for every nodespace and full name, a get_or_create_node call after
\* the first returns the node the first call returned, whatever functions
\* the scripts called in between.
C1_NodeUniqueness ==
  run_pc = "running" => \A key \in DOMAIN first_node : CallReturns(key) = first_node[key]

\* C3: a run emits the same Makefile whatever the order in which the dict
\* of all nodes hands out its nodes: from the same scripts, files and cache
\* every order gives the file the run wrote.
C3_MakefileDeterminism ==
  [][(run_pc = "running" /\ run_pc' = "emitted") =>
       \A order \in Orders(DOMAIN all_nodes) :
         Environment_write_makefile(nodes, all_nodes, order, attrib_cache, file_attribs,
                                    file_lines, fs_mtime, fs_lines).makefile = makefile'
    ]_vars

\* The names on the .PHONY line of a Makefile.
PhonyList(file) == IF file.phony = <<>> THEN {} ELSE Range(file.phony[1])

\* The output targets of the registered nodes whose is_phony() is true.
PhonyNodeTargets ==
  {Node_get_output_target(nodes, nodes[all_nodes[k]]).v[1] :
     k \in {j \in DOMAIN all_nodes :
              /\ Node_is_phony(nodes[all_nodes[j]])
              /\ Node_get_output_target(nodes, nodes[all_nodes[j]]) # PyNone}}

\* The targets write_makefile adds as phony: those of the phony nodes, and
\* clean.
AddedPhony == PhonyNodeTargets \cup {"clean"}

\* C9 as stated: every target added as phony is on the .PHONY line, and
\* every target on the .PHONY line was produced by a node whose is_phony()
\* is true.
C9_PhonyOnlyFromNodes ==
  run_pc = "emitted" =>
    /\ AddedPhony \subseteq PhonyList(makefile)
    /\ PhonyList(makefile) \subseteq PhonyNodeTargets

\* C9: every target added as phony is on the .PHONY line, and every target
\* on the .PHONY line is the built-in clean target or was produced by a node
\* whose is_phony() is true.
C9_PhonyClosure ==
  run_pc = "emitted" =>
    /\ AddedPhony \subseteq PhonyList(makefile)
    /\ PhonyList(makefile) \subseteq PhonyNodeTargets \cup {"clean"}

\* The targets of a Makefile by name.
WrittenTarget(file, output) ==
  CHOOSE k \in 1..Len(file.targets) : file.targets[k].output = output

\* A Makefile with the target of an alias on the .PHONY line and the target
\* of an object file off it.
C9_Witness ==
  /\ run_pc = "emitted"
  /\ \E i \in DOMAIN nodes : nodes[i].class = "AliasNode"
  /\ "a" \in PhonyList(makefile)
  /\ "clean" \in PhonyList(makefile)
  /\ \E k \in 1..Len(makefile.targets) : makefile.targets[k].output = "out/a.o"
  /\ "out/a.o" \notin PhonyList(makefile)

\* C10: the written inputs of every emitted target ascend strictly in the
\* order of the path strings: they are sorted and no path is there twice.
C10_InputsSortedUnique ==
  run_pc = "emitted" =>
    \A k \in 1..Len(makefile.targets) :
      LET inputs == makefile.targets[k].inputs
      IN \A m \in 1..(Len(inputs) - 1) : StrLess(inputs[m], inputs[m + 1])

\* The object of ./a reaches ./a through its source edge, through a group
\* and as a header ./a includes, and ./b as another header; its target
\* lists each once, in order.
C10_Witness ==
  /\ run_pc = "emitted"
  /\ <<"root", "a:object">> \in DOMAIN nodes
  /\ Node_get_input_paths(nodes, <<"root", "a:object">>, EmptyDict) = <<"./a", "./a">>
  /\ \E g \in DOMAIN nodes :
       /\ nodes[g].class = "GroupNode"
       /\ \E k \in 1..Len(nodes[<<"root", "a:object">>].edges) :
            nodes[<<"root", "a:object">>].edges[k].target = g
  /\ CSourceNode_calc_included_headers(attrib_cache, file_attribs, file_lines, fs_mtime,
                                       fs_lines, "./a", {}).headers = <<"./a", "./b">>
  /\ makefile.targets[WrittenTarget(makefile, "out/a.o")].inputs = <<"./a", "./b">>


\* A Makefile as Makefile.write leaves it: the built-in clean target is in
\* it.
CompleteMakefile(file) ==
  /\ file.exists
  /\ \E k \in 1..Len(file.targets) : file.targets[k].output = "clean"

\* C12: when a run ends in an error the file at the Makefile path is as it
\* was before the run or it is a complete Makefile, never a truncated one.
C12_NoPartialMakefile ==
  [][run_pc' = "failed" => (makefile' = makefile \/ CompleteMakefile(makefile'))]_vars

\* C13: no registration replaces a different node stored under the same
\* global name: a key of the registry of the Environment keeps its node.
C13_RegistryKeysKeepNode ==
  [][\A k \in DOMAIN all_nodes : k \in DOMAIN all_nodes' /\ all_nodes'[k] = all_nodes[k]]_vars
(***************************************************************************)
(* Properties of the recipes of the emitted Makefile (Spec).               *)
(***************************************************************************)
\* The registered nodes that have an output file, and the target names
\* under which they are emitted.
NodesWithOutputFile ==
  {i \in {all_nodes[k] : k \in DOMAIN all_nodes} : Node_get_output_file(nodes, nodes[i]) # PyNone}

OutputFileTargets ==
  {Node_get_output_target(nodes, nodes[i]).v[1] : i \in NodesWithOutputFile}

\* A recipe line that runs mkdir.
IsMkdirLine(line) == Len(line) >= 2 /\ line[2] = "mkdir"

\* The line that creates the folder a path lies in.
MkdirOfParent(path) ==
  <<"@", "mkdir", "-p", (CHOOSE t \in PathTable : t[3] = path)[1]>>

\* C23: in every emitted Makefile the first recipe line of a target whose
\* node has an output file is the command that creates the parent folder of
\* that file, and no later line of the target is; the target of a node
\* without an output file (an alias, clean) has no such line.
C23_MkdirPrelude ==
  run_pc = "emitted" =>
    \A k \in 1..Len(makefile.targets) :
      \A target \in {makefile.targets[k]} :
        IF target.output \in OutputFileTargets
        THEN /\ Len(target.commands) >= 1
             /\ target.commands[1] = MkdirOfParent(target.output)
             /\ \A m \in 2..Len(target.commands) : ~IsMkdirLine(target.commands[m])
        ELSE \A m \in 1..Len(target.commands) : ~IsMkdirLine(target.commands[m])

\* A Makefile with the target of the object of x/a, whose recipe makes
\* out/x before it echoes and compiles, with the target of an alias and
\* with clean.
C23_Witness ==
  /\ run_pc = "emitted"
  /\ \E k \in 1..Len(makefile.targets) :
       /\ makefile.targets[k].output = "out/x/a.o"
       /\ makefile.targets[k].commands[1] = <<"@", "mkdir", "-p", "out/x">>
       /\ Len(makefile.targets[k].commands) = 3
  /\ \E k \in 1..Len(makefile.targets) :
       /\ makefile.targets[k].output = "a"
       /\ makefile.targets[k].commands = <<>>
  /\ \E k \in 1..Len(makefile.targets) :
       /\ makefile.targets[k].output = "clean"
       /\ Len(makefile.targets[k].commands) = 2

\* The registered nodes that have an output target.
NodesWithOutputTarget ==
  {i \in {all_nodes[k] : k \in DOMAIN all_nodes} :
     Node_get_output_target(nodes, nodes[i]) # PyNone}

\* The emitted Makefile has a target under the output target of node i that
\* lists the inputs of the node.
Contributes(i) ==
  \E k \in 1..Len(makefile.targets) :
    /\ makefile.targets[k].output = Node_get_output_target(nodes, nodes[i]).v[1]
    /\ Range(Node_get_input_paths(nodes, i, EmptyDict)) \subseteq Range(makefile.targets[k].inputs)

\* C26: every registered node that has an output target contributes its
\* inputs to the emitted Makefile; the target of one node is not replaced by
\* that of another node with the same output target, so the members of
\* aliases added under one name in two contexts are all inputs of the alias
\* target.
C26_EveryNodeContributes ==
  run_pc = "emitted" => \A i \in NodesWithOutputTarget : Contributes(i)
(***************************************************************************)
(* Properties of the command builders and of shell_escape (SpecShell).     *)
(***************************************************************************)
\* make is through with the recipe: every line ran, or one failed.
RecipeDone ==
  /\ sh_command # NotBuilt
  /\ (sh_line > Len(sh_command.parts) \/ sh_status # 0)

\* C11: whatever files <outpath> and <outpath>.fail were there before, the
\* recipe of a teed command ends with a non-zero status exactly when the
\* built program failed; after a failure neither file exists, after a
\* success <outpath> exists and <outpath>.fail does not.
C11_SafeTeeContract ==
  RecipeDone =>
    /\ (sh_status # 0) <=> (sh_inner # 0)
    /\ sh_inner # 0 => sh_files \cap {ShFile(TeeDest), ShFileWith(TeeDest, ".fail")} = {}
    /\ sh_inner = 0 => /\ ShFile(TeeDest) \in sh_files
                       /\ ShFileWith(TeeDest, ".fail") \notin sh_files

\* The characters the claim names: whitespace, parentheses, the backslash.
Special == {" ", "(", ")", "\\"}

\* The number of special characters among the first n of s.
SpecialsUpTo(s, n) == Cardinality({i \in 1..n : s[i] \in Special})

\* The argument as it stands in the command line that was built, after the
\* executable and a space.
BuiltArgument ==
  LET command_line == sh_command.parts[1].args[1].args[1].args[1]
  IN SubSeq(command_line, Len(Executable) + 2, Len(command_line))

\* r is s with one backslash added before every special character.
EscapedAs(s, r) ==
  /\ Len(r) = Len(s) + SpecialsUpTo(s, Len(s))
  /\ \A i \in 1..Len(s) :
       /\ r[i + SpecialsUpTo(s, i)] = s[i]
       /\ s[i] \in Special => r[i + SpecialsUpTo(s, i) - 1] = "\\"

\* C15: shell_escape returns an argument without whitespace, parenthesis or
\* backslash unchanged; in every result each such character of the argument
\* stands right after one added backslash and the other characters keep
\* their order.
C15_ShellEscape ==
  sh_command # NotBuilt =>
    /\ (\A i \in 1..Len(sh_arg) : sh_arg[i] \notin Special) => BuiltArgument = sh_arg
    /\ EscapedAs(sh_arg, BuiltArgument)

\* A command was built from an argument with a letter, a backslash and a
\* parenthesis.
C15_Witness ==
  /\ sh_command # NotBuilt
  /\ sh_arg = <<"a", "\\", "(">>
  /\ BuiltArgument = <<"a", "\\", "\\", "\\", "(">>
(***************************************************************************)
(* Properties of include_dep (SpecDeps).                                   *)
(***************************************************************************)
\* One Nodespace was made for every registered dep name and its script was
\* loaded once; nothing was made or loaded for the other names.
OneNodespacePerDep ==
  \A d \in Deps :
    dep_history[d] = IF d \in DOMAIN env_deps THEN [spaces |-> 1, loads |-> 1]
                     ELSE [spaces |-> 0, loads |-> 0]

\* An include_dep call for a registered dep name makes no nodespace, loads
\* no script and leaves the registries alone.
RepeatedIncludeIsNoOp ==
  (ndepcalls' # ndepcalls /\ dep_call'.dep \in DOMAIN env_deps) =>
    /\ UNCHANGED <<env_deps, load_stack, dep_history>>
    /\ UNCHANGED <<contexts, nodes, nodespace_nodes, all_nodes>>

\* C14: after any include_dep calls there is one Nodespace per dep name and
\* the script of the dep was loaded once; an include_dep of a registered dep
\* name makes no nodespace, loads no script and changes no registry, also
\* while the script of that dep is still being loaded.
C14_IncludeDepOnce == []OneNodespacePerDep /\ [][RepeatedIncludeIsNoOp]_vars

\* A script of a dep that is still being loaded called include_dep for its
\* own dep, after it had made a group.
C14_Witness ==
  /\ dep_call.existing
  /\ dep_call.dep = Running(load_stack)
  /\ all_nodes # EmptyDict
  /\ Cardinality(DOMAIN env_deps) = 2
(***************************************************************************)
(* Properties of the custom-exec nodes (SpecExec).                         *)
(***************************************************************************)
\* The runner followed by the arguments.
RunnerAndArguments == exec_node.runner \o <<" ">> \o join(exec_node.args)

\* C17: get_command_line of a custom-exec node with a runner succeeds and
\* yields the runner followed by the arguments, after the environment
\* bindings when the node has any; for an ExecTestCaseNode it is the
\* safe-tee of that command line to the output file, named after the subject
\* without its extension plus .run.
C17_ExecCommandLine ==
  exec_result # NotCalled =>
    /\ exec_result # AttributeError
    /\ (exec_node.env = <<>> /\ exec_node.class # "ExecTestCaseNode") =>
         exec_result.parts = <<RunnerAndArguments>>
    /\ exec_node.class = "ExecTestCaseNode" =>
         /\ Len(exec_result.parts) = 3
         /\ CustomExecNode_output_name(exec_node) = "a.run"
(***************************************************************************)
(* Properties of get_included_headers (SpecHeaders).                       *)
(***************************************************************************)
\* The search folders: the folder of the source file, then the local
\* include folders in ascending order.
SearchFolders ==
  LET local == CHOOSE seq \in [1..Cardinality(hd_includes) -> hd_includes] :
                 \A i, j \in 1..Cardinality(hd_includes) : i < j => StrLess(seq[i], seq[j])
  IN <<".">> \o local

\* The search folders in which a file of the name exists.
FoldersWith(name) ==
  {k \in 1..Len(SearchFolders) : os_path_join(SearchFolders[k], name) \in DOMAIN hd_lines}

\* The file a name resolves to: the candidate in the first search folder in
\* which it exists.
ResolvedFile(name) ==
  os_path_join(SearchFolders[CHOOSE k \in FoldersWith(name) :
                               \A j \in FoldersWith(name) : k <= j], name)

\* The include names in a file of the tree.
NamesIn(path) == {hd_lines[path][i].name : i \in 1..Len(hd_lines[path])}

\* The names seen when the files the given names resolve to are scanned, and
\* so on.
RECURSIVE NamesSeenFrom(_)
NamesSeenFrom(names) ==
  LET more == names \cup UNION {NamesIn(ResolvedFile(n)) :
                                  n \in {m \in names : FoldersWith(m) # {}}}
  IN IF more = names THEN names ELSE NamesSeenFrom(more)

\* The files the procedure finds from the source file.
FilesFound ==
  IF SourcePath \notin DOMAIN hd_lines THEN {}
  ELSE {ResolvedFile(n) :
          n \in {m \in NamesSeenFrom(NamesIn(SourcePath)) : FoldersWith(m) # {}}}

\* C18: get_included_headers returns, sorted by path, exactly the files
\* found from the source file when every include name is resolved once to
\* the candidate in the first search folder where it exists (the parent
\* folder of the source, then the sorted local include folders) and every
\* resolved file is scanned in turn; a name without a candidate adds nothing.
C18_IncludedHeaders ==
  hd_headers # NotCalculated =>
    /\ Range(hd_headers) = FilesFound
    /\ Len(hd_headers) = Cardinality(FilesFound)
    /\ \A i, j \in 1..Len(hd_headers) : i < j => StrLess(hd_headers[i], hd_headers[j])

\* The source includes b, which is in both include folders and not beside
\* the source; the b of the first folder was taken, and the c it includes
\* was found in the second folder.
C18_Witness ==
  /\ hd_headers = <<"./x/b", "./y/c">>
  /\ hd_includes = {"./x", "./y"}
  /\ DOMAIN hd_lines = {"./a", "./x/b", "./y/b", "./y/c"}
  /\ NamesIn("./a") = {"b"}
  /\ NamesIn("./y/b") = {}

\* No element occurs twice in the sequence.
NoRepeats(seq) == \A i, j \in 1..Len(seq) : i # j => seq[i] # seq[j]

\* A call scanned every file path at most once and resolved every include
\* name at most once, so it made no more scans than there are files and no
\* more resolutions than there are names in them.
ScannedAndResolvedOnce ==
  /\ NoRepeats(hd_scans)
  /\ NoRepeats(hd_resolves)
  /\ Range(hd_scans) \subseteq DOMAIN hd_lines
  /\ Range(hd_resolves) \subseteq UNION {NamesIn(p) : p \in DOMAIN hd_lines}

\* The call that was followed step by step returned what the call returns.
ReturnedAsCalculated ==
  (hd_headers # NotCalculated) =>
    hd_headers = CSourceNode_calc_included_headers(
                   EmptyDict, [p \in DOMAIN hd_lines |-> EmptyDict],
                   [p \in DOMAIN hd_lines |-> NotRead], [p \in DOMAIN hd_lines |-> 1],
                   hd_lines, SourcePath, hd_includes).headers

\* C27: calc_included_headers terminates for every set of files, also when
\* a file includes itself or headers include each other in a cycle: the
\* call returns, having scanned each file path at most once and resolved
\* each include name at most once.
C27_HeadersTerminate ==
  /\ []ScannedAndResolvedOnce
  /\ []ReturnedAsCalculated
  /\ <>(hd_headers # NotCalculated)

\* The source includes itself and c, c includes b and b includes c again:
\* the call returned with the three files, each scanned once.
C27_Witness ==
  /\ hd_headers = <<"./a", "./b", "./y/c">>
  /\ ~hd_work.running
  /\ NamesIn("./a") = {"a", "c"}
  /\ NamesIn("./y/c") = {"b"}
  /\ NamesIn("./b") = {"c", "b"}
  /\ hd_scans = <<"./a", "./y/c", "./b">>
  /\ hd_resolves = <<"a", "c", "b">>
(***************************************************************************)
(* Properties of the command synthesis.                                    *)
(***************************************************************************)
\* C25: synthesizing a compile command never changes the Settings store:
\* after a get_config_flags call Settings.get returns for every Settings,
\* name, context and default what it returned before the call, also when
\* cflags was stored as a list with set_local, set_sticky or set_pervasive.
C25_SynthesisKeepsSettings ==
  [][\A s \in SettingsIds, name \in SettingNames, context \in QueryContexts, d \in Defaults,
        only_sticky \in BOOLEAN :
        Settings_get(attribs', s, name, context, d, only_sticky)
          = Settings_get(attribs, s, name, context, d, only_sticky)]_vars
(***************************************************************************)
(* Properties of scan_for_include_names (SpecScan).                        *)
(***************************************************************************)
\* The names in double quotes of the include lines of the file, with or
\* without whitespace before the #.
QuotedNames == {sc_lines[i].name : i \in {j \in 1..Len(sc_lines) : sc_lines[j].form = "quoted"}}

\* C24: the direct include-name list of a file is the sorted list without
\* duplicates of the quoted names of its include lines; a line with
\* whitespace before the # counts, a line with the name in angle brackets
\* does not.
C24_IncludeNames ==
  sc_names # NotScanned =>
    /\ Range(sc_names) = QuotedNames
    /\ Len(sc_names) = Cardinality(QuotedNames)
    /\ \A i, j \in 1..Len(sc_names) : i < j => StrLess(sc_names[i], sc_names[j])
(***************************************************************************)
(* Properties of the flattening of groups (SpecFlat).                      *)
(***************************************************************************)
\* The node a walk from node i along the edges numbered by p ends in; NoNode
\* when an edge is missing or the walk leaves a node that is not a group.
RECURSIVE WalkEnd(_, _)
WalkEnd(i, p) ==
  IF p = <<>> THEN i
  ELSE IF Head(p) > Len(fl_nodes[i].edges) THEN NoNode
  ELSE LET target == fl_nodes[i].edges[Head(p)].target
       IN IF Tail(p) # <<>> /\ ~IsGroupNode(fl_nodes[target]) THEN NoNode
          ELSE WalkEnd(target, Tail(p))

\* The k-th edge of the walk p from node i.
WalkEdge(i, p, k) == fl_nodes[WalkEnd(i, SubSeq(p, 1, k - 1))].edges[p[k]]

\* The most edges a node has, and the most edges of a walk through groups
\* that are not in a cycle.
MostEdges ==
  CHOOSE m \in 0..(MaxFlatEdges + 1) :
    /\ \A i \in DOMAIN fl_nodes : Len(fl_nodes[i].edges) <= m
    /\ \E i \in DOMAIN fl_nodes : Len(fl_nodes[i].edges) = m

LongestWalk == 1 + Cardinality({i \in DOMAIN fl_nodes : IsGroupNode(fl_nodes[i])})

\* The walks from node i through groups to a node that is not a group.
WalksThroughGroups(i) ==
  {p \in UNION {[1..n -> 1..MostEdges] : n \in 1..LongestWalk} :
     WalkEnd(i, p) # NoNode /\ ~IsGroupNode(fl_nodes[WalkEnd(i, p)])}

\* The walks a query lets through: one of their edges satisfies it, the
\* edge into a group or the member's own edge.
WalksOf(i, query) ==
  {p \in WalksThroughGroups(i) :
     \E k \in 1..Len(p) : Edge_has_annotations(WalkEdge(i, p, k), query)}

\* Insertion order: p comes first where the two walks part.
WalkBefore(p, q) ==
  \E k \in 1..Len(p) :
    /\ k <= Len(q)
    /\ \A j \in 1..(k - 1) : p[j] = q[j]
    /\ p[k] < q[k]

\* A group is reached from itself through member edges.
RECURSIVE GroupsBelow(_, _)
GroupsBelow(i, depth) ==
  LET direct == {fl_nodes[i].edges[k].target : k \in 1..Len(fl_nodes[i].edges)}
      groups == {t \in direct : IsGroupNode(fl_nodes[t])}
  IN IF depth = 0 THEN groups
     ELSE groups \cup UNION {GroupsBelow(t, depth - 1) : t \in groups}

GroupCycle == \E g \in DOMAIN fl_nodes : g \in GroupsBelow(g, Cardinality(DOMAIN fl_nodes))

Consulting == {k \in 1..Len(lib_calls) : lib_calls[k].lib = "glib"}

\* C22: pkg-config is run at most once for the autoresolve instance and not
\* before an add_library call consults the instance; the calls that consult
\* it after the first one run nothing, and each adds, to the system
\* includes of its object's source and to the libraries of its object, the
\* includes and the libs the first one added.
C22_ResolvedOnce ==
  /\ pkg_runs <= 1
  /\ pkg_runs = 1 => Consulting # {}
  /\ \A j, k \in Consulting :
       j < k =>
         /\ ~lib_calls[k].ran
         /\ lib_calls[k].returned
         /\ lib_calls[k].includes = lib_calls[j].includes
         /\ lib_calls[k].libs = lib_calls[j].libs
  /\ \A k \in Consulting :
       /\ Range(lib_calls[k].includes) \subseteq system_includes[lib_calls[k].obj]
       /\ Range(lib_calls[k].libs) \subseteq libraries[lib_calls[k].obj]

\* a:object, then b:object and a:object again added glib; the first call
\* ran pkg-config, which printed two include paths and two libs, and both
\* objects have them.
C22_Witness ==
  /\ Len(lib_calls) = 3
  /\ \A k \in 1..3 : lib_calls[k].lib = "glib"
  /\ lib_calls[1].obj = "a:object" /\ lib_calls[2].obj = "b:object"
  /\ lib_calls[3].obj = "a:object"
  /\ lib_calls[1].ran /\ pkg_runs = 1
  /\ lib_calls[3].includes = <<"/usr/include/glib", "/usr/lib/glib">>
  /\ libraries["b:object"] = {"glib", "m"}
  /\ system_includes["a:object"] = {"/usr/include/glib", "/usr/lib/glib"}
(***************************************************************************)
(* Properties of the names of nodes (SpecNames).                           *)
(***************************************************************************)
\* C29: every node get_or_create_node made under the full name N, of
\* whatever class, has get_name() equal to the last part of N and
\* get_full_name() equal to N.
C29_NodeNames ==
  \A ns \in DOMAIN nm_nodes : \A N \in DOMAIN nm_nodes[ns] :
    /\ Node_get_name(nm_nodes[ns][N]) = PyStr(Name_get_last_part(N))
    /\ Node_get_full_name(nm_nodes[ns][N]) = NameParts(N)
====
